---- MODULE Spec2Model ----
\* Model of the multi-file context analyzer (ContextAnalyzer) of
\* bitbucket-to-confluence-ts: file discovery, module table, relationship
\* extraction, service grouping, context assembly and the dependency-graph query.
\* A path is the sequence of its "/"-separated segments ("/w/main.go" is
\* <<"", "w", "main.go">>, "." is <<".">>); file names, extensions and import
\* strings are TLA+ strings handled character by character.
EXTENDS Integers, Sequences, FiniteSets, TLC

\* ---------------------------------------------------------------- bounds
\* at most this many of the catalogue's files exist on disk
MaxFiles == 3
\* at most this many analyzeDirectory calls on one ContextAnalyzer
MaxRuns == 2
\* at most this many calls of the pipeline's operations and events of the file
\* watcher in one behaviour, not counting a start() or stop() that processes no
\* file
MaxOperations == 1
\* at most this many calls of the repository cloner in one behaviour
MaxClones == 2

\* ---------------------------------------------------------------- strings
Upper == "ABCDEFGHIJKLMNOPQRSTUVWXYZ"
Lower == "abcdefghijklmnopqrstuvwxyz"

CharAt(s, i) == SubSeq(s, i, i)

\* the lower-case letter of each upper-case letter
LowerOf == [c \in {CharAt(Upper, i) : i \in 1..Len(Upper)} |->
              CharAt(Lower, CHOOSE i \in 1..Len(Upper) : CharAt(Upper, i) = c)]

\* String.prototype.toLowerCase on one character (ASCII)
LowerChar(c) == IF c \in DOMAIN LowerOf THEN LowerOf[c] ELSE c

RECURSIVE ToLowerCase(_)
ToLowerCase(s) ==
  IF Len(s) = 0 THEN s ELSE LowerChar(CharAt(s, 1)) \o ToLowerCase(SubSeq(s, 2, Len(s)))

StartsWith(s, p) == Len(p) <= Len(s) /\ SubSeq(s, 1, Len(p)) = p

EndsWith(s, p) == Len(p) <= Len(s) /\ SubSeq(s, Len(s) - Len(p) + 1, Len(s)) = p

\* String.prototype.includes
Includes(s, p) == \E i \in 1..(Len(s) - Len(p) + 1) : SubSeq(s, i, i + Len(p) - 1) = p

\* position of the last occurrence of character c in s, 0 when there is none
RECURSIVE LastIndexFrom(_, _, _)
LastIndexFrom(s, c, i) ==
  IF i = 0 THEN 0 ELSE IF CharAt(s, i) = c THEN i ELSE LastIndexFrom(s, c, i - 1)

LastIndexOf(s, c) == LastIndexFrom(s, c, Len(s))

\* position of the first occurrence of character c in s, 0 when there is none
RECURSIVE IndexFrom(_, _, _)
IndexFrom(s, c, i) ==
  IF i > Len(s) THEN 0 ELSE IF CharAt(s, i) = c THEN i ELSE IndexFrom(s, c, i + 1)

IndexOf(s, c) == IndexFrom(s, c, 1)

\* String.prototype.replace(/\./g, '/')
RECURSIVE DotsToSlashes(_)
DotsToSlashes(s) ==
  IF Len(s) = 0 THEN s
  ELSE (IF CharAt(s, 1) = "." THEN "/" ELSE CharAt(s, 1)) \o DotsToSlashes(SubSeq(s, 2, Len(s)))

\* String.prototype.split('/')
RECURSIVE Split(_)
Split(s) ==
  LET i == IndexOf(s, "/") IN
  IF i = 0 THEN <<s>> ELSE <<SubSeq(s, 1, i - 1)>> \o Split(SubSeq(s, i + 1, Len(s)))

\* ---------------------------------------------------------------- path (posix)
\* the path a string denotes: its segments
Path(str) == Split(str)

IsAbsolute(p) == p[1] = ""

\* the segments of p with "", "." dropped and ".." resolved, as path.normalize does
RECURSIVE NormSegs(_, _, _)
NormSegs(segs, acc, abs) ==
  IF Len(segs) = 0 THEN acc
  ELSE LET s == Head(segs) IN
       IF s = "" \/ s = "." THEN NormSegs(Tail(segs), acc, abs)
       ELSE IF s = ".."
            THEN IF Len(acc) > 0 /\ acc[Len(acc)] # ".."
                 THEN NormSegs(Tail(segs), SubSeq(acc, 1, Len(acc) - 1), abs)
                 ELSE IF abs THEN NormSegs(Tail(segs), acc, abs)
                      ELSE NormSegs(Tail(segs), Append(acc, s), abs)
            ELSE NormSegs(Tail(segs), Append(acc, s), abs)

\* path.normalize
Normalize(p) ==
  LET body == NormSegs(p, <<>>, IsAbsolute(p)) IN
  IF IsAbsolute(p) THEN <<"">> \o body
  ELSE IF body = <<>> THEN <<".">> ELSE body

\* path.join(a, b)
PathJoin(a, b) == Normalize(a \o b)

\* path.dirname
Dirname(p) ==
  IF Len(p) = 1 THEN (IF IsAbsolute(p) THEN p ELSE <<".">>)
  ELSE SubSeq(p, 1, Len(p) - 1)

\* path.basename(p)
Basename(p) == p[Len(p)]

\* path.extname of a file name: from its last ".", "" when there is none or when
\* the only "." is the first character
Extname(name) ==
  LET i == LastIndexOf(name, ".") IN
  IF i <= 1 THEN "" ELSE SubSeq(name, i, Len(name))

\* path.basename(p, ext)
BasenameExt(p, ext) ==
  LET b == Basename(p) IN
  IF ext # "" /\ b # ext /\ EndsWith(b, ext) THEN SubSeq(b, 1, Len(b) - Len(ext)) ELSE b

\* ---------------------------------------------------------------- the file system
\* process.cwd(), against which relative paths are resolved
Cwd == Path("/w")

GenGo == Path("/w/build/gen.go")
IndexGo == Path("/w/controllers/index.go")
MainGo == Path("/w/main.go")
PaymentRepositoryGo == Path("/w/models/payment_repository.go")
PomXml == Path("/w/pom.xml")
OrderJava == Path("/w/src/Order/Order.java")
OrderServiceJava == Path("/w/src/OrderService.java")
UserControllerCs == Path("/w/src/UserController.cs")
UserControllerGo == Path("/w/user_controller.go")
UserModelGo == Path("/w/user_model.go")
UserServiceImplGo == Path("/w/user_service/impl.go")
UserServiceGo == Path("/w/user_service.go")
HelpersGo == Path("/w/utils/helpers.go")

\* The files that may exist on disk, in directory-listing (depth-first) order:
\* three sample projects below the working directory.
Catalogue == <<GenGo, IndexGo, MainGo, PaymentRepositoryGo, PomXml, OrderJava,
               OrderServiceJava, UserControllerCs, UserControllerGo, UserModelGo,
               UserServiceImplGo, UserServiceGo, HelpersGo>>

\* a Go service in one directory and its package directory; a Go project with
\* category directories;
\* a Java / C# project with a build descriptor
Projects == {
  {MainGo, UserControllerGo, UserModelGo, UserServiceGo, UserServiceImplGo},
  {MainGo, GenGo, IndexGo, PaymentRepositoryGo, HelpersGo},
  {PomXml, OrderJava, OrderServiceJava, UserControllerCs} }

\* the directories analyzeDirectory is called with (relative, as the default
\* './src' of the configuration is, and absolute)
Directories == {Path("."), Path("/w")}

NoContent ==
  [imports |-> <<>>, decls |-> <<>>, annotations |-> <<>>, autowired |-> <<>>,
   diFields |-> <<>>, classes |-> <<>>, endpoints |-> <<>>]

\* What the regular expressions of the analyzer and of the parsers find in each
\* file: import lines, class declarations, annotations, @Autowired fields,
\* injected interface fields, and the parser's classes and endpoints.
FileContent(abs) ==
  CASE abs = MainGo ->
         [NoContent EXCEPT !.imports = <<"fmt", "./utils", "./build", "./user_service">>]
    [] abs = UserControllerGo ->
         [NoContent EXCEPT !.imports = <<"./user_service">>, !.endpoints = <<"GET /users">>]
    [] abs = UserServiceGo -> [NoContent EXCEPT !.classes = <<"UserService">>]
    [] abs = UserModelGo -> [NoContent EXCEPT !.classes = <<"User">>]
    [] abs = UserServiceImplGo -> [NoContent EXCEPT !.classes = <<"Impl">>]
    [] abs = HelpersGo -> [NoContent EXCEPT !.imports = <<"../controllers">>]
    [] abs = IndexGo ->
         [NoContent EXCEPT !.imports = <<"../models">>, !.endpoints = <<"GET /">>]
    [] abs = PaymentRepositoryGo -> [NoContent EXCEPT !.classes = <<"PaymentRepository">>]
    [] abs = OrderServiceJava ->
         [NoContent EXCEPT
            !.imports = <<"Order.Order", "java.util.List">>,
            !.decls = <<[name |-> "OrderService", extends |-> "Base",
                         implements |-> <<"Order", "Runnable">>]>>,
            !.annotations = <<"Service", "Autowired", "Override">>,
            !.autowired = <<[type |-> "Order", field |-> "order"]>>,
            !.classes = <<"OrderService", "order">>,
            !.endpoints = <<"POST /orders">>]
    [] abs = OrderJava ->
         [NoContent EXCEPT
            !.decls = <<[name |-> "Order", extends |-> "Base", implements |-> <<>>]>>,
            !.classes = <<"Order", "Base", "IOrder">>]
    [] abs = UserControllerCs ->
         [NoContent EXCEPT
            !.imports = <<"System", "UserController">>,
            !.decls = <<[name |-> "UserController", extends |-> "",
                         implements |-> <<"ControllerBase", "Base">>]>>,
            !.diFields = <<"IUserService", "IOrder">>,
            !.classes = <<"UserController", "Base">>,
            !.endpoints = <<"GET /api/users">>]
    [] OTHER -> NoContent

Reverse(s) == [i \in 1..Len(s) |-> s[Len(s) + 1 - i]]

\* path.resolve(base, rel)
Resolve(base, rel) ==
  IF IsAbsolute(rel) THEN Normalize(rel)
  ELSE IF IsAbsolute(base) THEN Normalize(base \o rel)
  ELSE Normalize(Cwd \o base \o rel)

Abs(p) == Resolve(<<".">>, p)

\* whether file f lies below directory absDir
Below(absDir, f) == Len(f) > Len(absDir) /\ SubSeq(f, 1, Len(absDir)) = absDir

IsFile(fs, p) == Abs(p) \in fs

\* a directory exists when a file lies below it; the working directory and the
\* directories above it always exist
IsDirectory(fs, p) ==
  LET a == Abs(p) IN
  \/ \E f \in fs : Below(a, f)
  \/ Len(a) <= Len(Cwd) /\ SubSeq(Cwd, 1, Len(a)) = a

\* fs.pathExists
PathExists(fs, p) == IsFile(fs, p) \/ IsDirectory(fs, p)

RECURSIVE Entries(_, _, _)
Entries(fs, absDir, files) ==
  IF Len(files) = 0 THEN <<>>
  ELSE LET f == Head(files)
           rest == Entries(fs, absDir, Tail(files)) IN
       IF f \in fs /\ Below(absDir, f)
       THEN LET n == f[Len(absDir) + 1] IN
            <<n>> \o SelectSeq(rest, LAMBDA x : x # n)
       ELSE rest

\* fs.readdir(dir): the entry names of the directory in listing order
Readdir(fs, order, dir) ==
  Entries(fs, Abs(dir), IF order = "asc" THEN Catalogue ELSE Reverse(Catalogue))

\* ---------------------------------------------------------------- file discovery
SkipDirs == {"node_modules", ".git", "dist", "build", "target", "bin", "obj",
             ".idea", ".vscode", "coverage", "logs", "tmp", "temp"}

ShouldSkipDirectory(dirName) == dirName \in SkipDirs \/ StartsWith(dirName, ".")

\* ParserFactory.getSupportedExtensions
SupportedExtensions == {".go", ".java", ".cs"}

\* traverse(dir) of findAllSupportedFiles: the supported files below dir, depth
\* first in listing order, each as path.join(dir, item)
RECURSIVE Traverse(_, _, _)
RECURSIVE TraverseItems(_, _, _, _)
TraverseItems(fs, order, dir, items) ==
  IF Len(items) = 0 THEN <<>>
  ELSE LET item == Head(items)
           itemPath == PathJoin(dir, <<item>>)
           here == IF IsDirectory(fs, itemPath)
                   THEN IF ShouldSkipDirectory(item) THEN <<>>
                        ELSE Traverse(fs, order, itemPath)
                   ELSE IF Extname(item) \in SupportedExtensions THEN <<itemPath>>
                        ELSE <<>>
       IN here \o TraverseItems(fs, order, dir, Tail(items))

Traverse(fs, order, dir) == TraverseItems(fs, order, dir, Readdir(fs, order, dir))

FindAllSupportedFiles(fs, order, directoryPath) == Traverse(fs, order, directoryPath)

\* ---------------------------------------------------------------- i/o failures
\* One operation of the file system may fail in a world: fs.readdir of a
\* directory, fs.stat of an entry, or fs.readFile of a file once it was parsed
\* (the file was deleted or locked in between).
NoFault == [op |-> "none", path |-> <<>>]

NoError == [op |-> "none", path |-> <<>>, during |-> "none"]

Err(op, path, during) == [op |-> op, path |-> path, during |-> during]

\* the directories at or below the working directory that hold a file
DirectoriesOf(fs) == UNION {{SubSeq(f, 1, k) : k \in Len(Cwd)..(Len(f) - 1)} : f \in fs}

Faults(fs) ==
  {[op |-> "readdir", path |-> d] : d \in DirectoriesOf(fs) \cup {Cwd}}
  \cup {[op |-> "stat", path |-> e] : e \in fs \cup (DirectoriesOf(fs) \ {Cwd})}
  \cup {[op |-> "readFile", path |-> f] : f \in fs}

\* fs.readdir(dir) throws: dir is no directory, or the failing operation is this one
ReaddirThrows(fs, flt, dir) ==
  ~IsDirectory(fs, dir) \/ (flt.op = "readdir" /\ flt.path = Abs(dir))

\* fs.stat(p) throws
StatThrows(fs, flt, p) == ~PathExists(fs, p) \/ (flt.op = "stat" /\ flt.path = Abs(p))

\* the error traverse(dir) of findAllSupportedFiles throws, NoError when it returns
RECURSIVE TraverseError(_, _, _, _)
RECURSIVE TraverseItemsError(_, _, _, _, _)
TraverseItemsError(fs, order, flt, dir, items) ==
  IF Len(items) = 0 THEN NoError
  ELSE LET item == Head(items)
           itemPath == PathJoin(dir, <<item>>)
           here == IF StatThrows(fs, flt, itemPath) THEN Err("stat", itemPath, "discovery")
                   ELSE IF IsDirectory(fs, itemPath) /\ ~ShouldSkipDirectory(item)
                        THEN TraverseError(fs, order, flt, itemPath)
                        ELSE NoError
       IN IF here # NoError THEN here
          ELSE TraverseItemsError(fs, order, flt, dir, Tail(items))

TraverseError(fs, order, flt, dir) ==
  IF ReaddirThrows(fs, flt, dir) THEN Err("readdir", dir, "discovery")
  ELSE TraverseItemsError(fs, order, flt, dir, Readdir(fs, order, dir))

\* ---------------------------------------------------------------- parsing
\* ParserFactory.getParserByFileExtension: the language of the file's parser
LanguageOf(filePath) ==
  LET ext == ToLowerCase(Extname(Basename(filePath))) IN
  CASE ext = ".go" -> "go" [] ext = ".java" -> "java" [] ext = ".cs" -> "csharp"
    [] OTHER -> "none"

NoModule == [filePath |-> <<>>, language |-> "none", endpoints |-> <<>>, classes |-> <<>>]

\* ParseFile returning a module without facts for a file it cannot read
ParseFileNeverNull(fs, bad, filePath) ==
  [filePath |-> filePath,
   language |-> LanguageOf(filePath),
   endpoints |-> IF Abs(filePath) \in bad THEN <<>> ELSE FileContent(Abs(filePath)).endpoints,
   classes |-> IF Abs(filePath) \in bad THEN <<>> ELSE FileContent(Abs(filePath)).classes]

\* ParserFactory.parseFile / BaseParser.parseFile: the module of a readable file
\* of a supported language, NoModule (null) otherwise
ParseFile(fs, bad, filePath) ==
  IF LanguageOf(filePath) = "none" \/ ~IsFile(fs, filePath) \/ Abs(filePath) \in bad
  THEN NoModule
  ELSE [filePath |-> filePath,
        language |-> LanguageOf(filePath),
        endpoints |-> FileContent(Abs(filePath)).endpoints,
        classes |-> FileContent(Abs(filePath)).classes]

\* ---------------------------------------------------------------- the module table
\* codeModules is a Map: a sequence of [key, value] in insertion order
Keys(map) == [i \in 1..Len(map) |-> map[i].key]

KeySet(map) == {map[i].key : i \in 1..Len(map)}

MapGet(map, k) == map[CHOOSE i \in 1..Len(map) : map[i].key = k].value

\* Map.prototype.set: a new key is appended, an existing key keeps its position
MapSet(map, k, v) ==
  IF k \in KeySet(map)
  THEN [i \in 1..Len(map) |-> IF map[i].key = k THEN [key |-> k, value |-> v] ELSE map[i]]
  ELSE Append(map, [key |-> k, value |-> v])

\* ---------------------------------------------------------------- service names
ServicePatterns ==
  <<"Controller", "Service", "Handler", "Repository", "Manager", "Provider", "Component">>

LowerPatterns == [i \in 1..Len(ServicePatterns) |-> ToLowerCase(ServicePatterns[i])]

\* MatchesPattern without the i flag of the regular expressions
MatchesPatternCaseSensitive(fileName, lowerName, i) ==
  Len(fileName) > Len(ServicePatterns[i]) /\ EndsWith(fileName, ServicePatterns[i])

\* fileName.match(/(.+)<Pattern>$/i): the pattern is a suffix of the file name in
\* any letter case, after a non-empty prefix (lowerName is the lower-cased name)
MatchesPattern(fileName, lowerName, i) ==
  Len(fileName) > Len(ServicePatterns[i]) /\ EndsWith(lowerName, LowerPatterns[i])

\* DirectoryLabel without the "Root" label
DirectoryLabelAsIs(dirName) == dirName

\* the fallback of extractServiceName: the parent directory's name
DirectoryLabel(dirName) == IF dirName = "." THEN "Root" ELSE dirName

ExtractServiceName(filePath) ==
  LET fileName == BasenameExt(filePath, Extname(Basename(filePath)))
      dirName == Basename(Dirname(filePath))
      lowerName == ToLowerCase(fileName)
      hits == {i \in 1..Len(ServicePatterns) : MatchesPattern(fileName, lowerName, i)}
  IN IF hits # {}
     THEN LET first == CHOOSE i \in hits : \A j \in hits : i <= j IN
          SubSeq(fileName, 1, Len(fileName) - Len(ServicePatterns[first]))
     ELSE DirectoryLabel(dirName)

\* ---------------------------------------------------------------- categories
FileNameKeywords == <<
  [category |-> "controller", words |-> {"controller", "handler", "router"}],
  [category |-> "service", words |-> {"service", "manager", "provider"}],
  [category |-> "model", words |-> {"model", "entity", "dto", "domain"}],
  [category |-> "repository", words |-> {"repository", "dao", "data"}],
  [category |-> "config", words |-> {"config", "setting", "property"}],
  [category |-> "utility", words |-> {"util", "helper", "tool"}],
  [category |-> "test", words |-> {"test", "spec"}] >>

DirectoryNames == <<
  [category |-> "controller", words |-> {"controller", "controllers", "handler", "handlers"}],
  [category |-> "service", words |-> {"service", "services", "business", "logic"}],
  [category |-> "model", words |-> {"model", "models", "entity", "entities", "domain", "dto"}],
  [category |-> "repository", words |-> {"repository", "repositories", "dao", "data"}],
  [category |-> "config", words |-> {"config", "configuration", "settings"}],
  [category |-> "utility",
   words |-> {"util", "utils", "utility", "utilities", "helper", "helpers"}],
  [category |-> "test", words |-> {"test", "tests", "spec", "specs"}] >>

\* CategorizeFile consulting the directory name before the file name
CategorizeFileDirectoryFirst(filePath) ==
  LET fileName == ToLowerCase(Basename(filePath))
      dirName == ToLowerCase(Basename(Dirname(filePath)))
      byName == {i \in 1..Len(FileNameKeywords) :
                   \E w \in FileNameKeywords[i].words : Includes(fileName, w)}
      byDir == {i \in 1..Len(DirectoryNames) : dirName \in DirectoryNames[i].words}
  IN IF byDir # {}
     THEN DirectoryNames[CHOOSE i \in byDir : \A j \in byDir : i <= j].category
     ELSE IF byName # {}
          THEN FileNameKeywords[CHOOSE i \in byName : \A j \in byName : i <= j].category
          ELSE "unknown"

CategorizeFile(filePath) ==
  LET fileName == ToLowerCase(Basename(filePath))
      dirName == ToLowerCase(Basename(Dirname(filePath)))
      byName == {i \in 1..Len(FileNameKeywords) :
                   \E w \in FileNameKeywords[i].words : Includes(fileName, w)}
      byDir == {i \in 1..Len(DirectoryNames) : dirName \in DirectoryNames[i].words}
  IN IF byName # {}
     THEN FileNameKeywords[CHOOSE i \in byName : \A j \in byName : i <= j].category
     ELSE IF byDir # {}
          THEN DirectoryNames[CHOOSE i \in byDir : \A j \in byDir : i <= j].category
          ELSE "unknown"

\* ---------------------------------------------------------------- resolution
\* null (no file)
Null == <<>>

RECURSIVE Concat(_)
Concat(ss) == IF Len(ss) = 0 THEN <<>> ELSE Head(ss) \o Concat(Tail(ss))

FlatMap(s, F(_)) == Concat([i \in 1..Len(s) |-> F(s[i])])

Edge(src, tgt, kind, details) ==
  [sourceFile |-> src, targetFile |-> tgt, relationType |-> kind, details |-> details]

\* the push made whatever the resolver returned
EdgeAlways(src, tgt, kind, details) == <<Edge(src, tgt, kind, details)>>

\* the push guarded by `if (resolvedPath)` / `if (targetFile)`
EdgeIfResolved(src, tgt, kind, details) ==
  IF tgt # Null THEN <<Edge(src, tgt, kind, details)>> ELSE <<>>

\* ResolveGoImport probing the file <import>.go instead of reading a directory
ResolveGoImportByExtension(fs, order, filePath, importPath) ==
  IF StartsWith(importPath, "./") \/ StartsWith(importPath, "../")
  THEN LET resolvedPath == Resolve(Dirname(filePath), Path(importPath \o ".go")) IN
       IF PathExists(fs, resolvedPath) THEN resolvedPath ELSE Null
  ELSE Null

ResolveGoImport(fs, order, filePath, importPath) ==
  IF StartsWith(importPath, "./") \/ StartsWith(importPath, "../")
  THEN LET resolvedPath == Resolve(Dirname(filePath), Path(importPath)) IN
       IF PathExists(fs, resolvedPath)
       THEN LET goFiles == SelectSeq(Readdir(fs, order, resolvedPath),
                                     LAMBDA f : EndsWith(f, ".go")) IN
            IF Len(goFiles) > 0 THEN PathJoin(resolvedPath, <<goFiles[1]>>) ELSE Null
       ELSE Null
  ELSE Null

MarkerFiles == {"package.json", "pom.xml", "build.gradle", "go.mod", ".git"}

MarkerSuffixes == {".csproj", ".sln"}

HasProjectMarker(fs, order, dir) ==
  \/ \E m \in MarkerFiles : PathExists(fs, PathJoin(dir, <<m>>))
  \/ LET files == Readdir(fs, order, dir) IN
     \E i \in 1..Len(files) : \E sfx \in MarkerSuffixes : EndsWith(files[i], sfx)

RECURSIVE FindProjectRootFrom(_, _, _)
FindProjectRootFrom(fs, order, currentPath) ==
  IF currentPath = Dirname(currentPath) THEN Null
  ELSE IF HasProjectMarker(fs, order, currentPath) THEN currentPath
  ELSE FindProjectRootFrom(fs, order, Dirname(currentPath))

FindProjectRoot(fs, order, filePath) == FindProjectRootFrom(fs, order, Dirname(filePath))

\* the first of the candidate paths that exists on disk
FirstExisting(fs, candidates) ==
  LET found == SelectSeq(candidates, LAMBDA c : PathExists(fs, c)) IN
  IF Len(found) > 0 THEN found[1] ELSE Null

ResolveJavaImport(fs, order, filePath, importPath) ==
  LET relativePath == Path(DotsToSlashes(importPath) \o ".java")
      projectRoot == FindProjectRoot(fs, order, filePath) IN
  IF projectRoot # Null
  THEN FirstExisting(fs, <<PathJoin(projectRoot \o <<"src", "main", "java">>, relativePath),
                           PathJoin(projectRoot \o <<"src">>, relativePath),
                           PathJoin(Dirname(filePath), relativePath)>>)
  ELSE Null

ResolveCSharpUsing(fs, order, filePath, usingPath) ==
  LET relativePath == Path(DotsToSlashes(usingPath) \o ".cs")
      projectRoot == FindProjectRoot(fs, order, filePath) IN
  IF projectRoot # Null
  THEN FirstExisting(fs, <<PathJoin(projectRoot, relativePath),
                           PathJoin(Dirname(filePath), relativePath)>>)
  ELSE Null

\* findClassDefinition comparing class names without regard to case
FindClassDefinitionIgnoringCase(map, className) ==
  LET hits == {i \in 1..Len(map) :
                 \E c \in 1..Len(map[i].value.classes) :
                   ToLowerCase(map[i].value.classes[c]) = ToLowerCase(className)}
  IN IF hits # {} THEN map[CHOOSE i \in hits : \A j \in hits : i <= j].key ELSE Null

\* the first file of the module table, in insertion order, declaring className
FindClassDefinition(map, className) ==
  LET hits == {i \in 1..Len(map) :
                 \E c \in 1..Len(map[i].value.classes) : map[i].value.classes[c] = className}
  IN IF hits # {} THEN map[CHOOSE i \in hits : \A j \in hits : i <= j].key ELSE Null

\* ---------------------------------------------------------------- relationship extraction
AnalyzeGoRelationships(fs, order, filePath, content) ==
  FlatMap(content.imports,
          LAMBDA imp : IF imp # "" /\ ~StartsWith(imp, "//")
                       THEN EdgeIfResolved(filePath, ResolveGoImport(fs, order, filePath, imp),
                                           "import", imp)
                       ELSE <<>>)

\* the edges one call of findServiceDependencies appends: every @Autowired field
FindServiceDependencies(map, filePath, content) ==
  FlatMap(content.autowired,
          LAMBDA a : EdgeIfResolved(filePath, FindClassDefinition(map, a.type), "references",
                                    "@Autowired " \o a.type \o " " \o a.field))

InjectionAnnotations == {"Autowired", "Inject", "Service", "Component", "Repository"}

AnalyzeJavaRelationships(fs, order, map, filePath, content) ==
  FlatMap(content.imports,
          LAMBDA imp : IF imp # ""
                       THEN EdgeIfResolved(filePath, ResolveJavaImport(fs, order, filePath, imp),
                                           "import", imp)
                       ELSE <<>>)
  \o FlatMap(content.decls,
             LAMBDA d :
               (IF d.extends # ""
                THEN EdgeIfResolved(filePath, FindClassDefinition(map, d.extends), "extends",
                                    d.name \o " extends " \o d.extends)
                ELSE <<>>)
               \o FlatMap(d.implements,
                          LAMBDA n : EdgeIfResolved(filePath, FindClassDefinition(map, n),
                                                    "implements",
                                                    d.name \o " implements " \o n)))
  \o FlatMap(content.annotations,
             LAMBDA a : IF a \in InjectionAnnotations
                        THEN FindServiceDependencies(map, filePath, content)
                        ELSE <<>>)

AnalyzeCSharpRelationships(fs, order, map, filePath, content) ==
  FlatMap(content.imports,
          LAMBDA u : IF u # ""
                     THEN EdgeIfResolved(filePath, ResolveCSharpUsing(fs, order, filePath, u),
                                         "import", u)
                     ELSE <<>>)
  \o FlatMap(content.decls,
             LAMBDA d : FlatMap(d.implements,
                                LAMBDA t : EdgeIfResolved(filePath, FindClassDefinition(map, t),
                                                          "extends", d.name \o " : " \o t)))
  \o FlatMap(content.diFields,
             LAMBDA n : EdgeIfResolved(filePath, FindClassDefinition(map, n), "references",
                                       "Dependency injection: " \o n))

\* the switch of findRelationshipsForFile over the content read from the file
RelationshipsIn(fs, order, map, filePath, module, content) ==
  CASE module.language = "go" -> AnalyzeGoRelationships(fs, order, filePath, content)
    [] module.language = "java" -> AnalyzeJavaRelationships(fs, order, map, filePath, content)
    [] module.language = "csharp" ->
         AnalyzeCSharpRelationships(fs, order, map, filePath, content)
    [] OTHER -> <<>>

\* the edges findRelationshipsForFile appends for one entry of the module table
FindRelationshipsForFile(fs, order, map, filePath, module) ==
  RelationshipsIn(fs, order, map, filePath, module, FileContent(Abs(filePath)))

\* what findRelationshipsForFile throws and how many imports it handled before
Thrown(err, before) == [error |-> err, before |-> before]

NothingThrown == Thrown(NoError, 0)

\* the error of findProjectRoot walking up from currentPath: fs.readdir is
\* reached in a directory holding none of the markers probed before '*.csproj'
RECURSIVE ProjectRootThrown(_, _, _, _)
ProjectRootThrown(fs, order, flt, currentPath) ==
  IF currentPath = Dirname(currentPath) THEN NothingThrown
  ELSE IF \E m \in MarkerFiles \ {".git"} : PathExists(fs, PathJoin(currentPath, <<m>>))
  THEN NothingThrown
  ELSE IF ReaddirThrows(fs, flt, currentPath)
  THEN Thrown(Err("readdir", currentPath, "relationships"), 0)
  ELSE IF HasProjectMarker(fs, order, currentPath) THEN NothingThrown
  ELSE ProjectRootThrown(fs, order, flt, Dirname(currentPath))

\* fs.readdir(resolvedPath) of resolveGoImport for the k-th import
GoReadThrown(fs, flt, resolvedPath, k) ==
  IF PathExists(fs, resolvedPath) /\ ReaddirThrows(fs, flt, resolvedPath)
  THEN Thrown(Err("readdir", resolvedPath, "relationships"), k - 1)
  ELSE NothingThrown

\* the first import, from the k-th on, at which analyzeGoRelationships throws
RECURSIVE GoImportsThrown(_, _, _, _, _)
GoImportsThrown(fs, flt, filePath, imports, k) ==
  IF k > Len(imports) THEN NothingThrown
  ELSE IF /\ imports[k] # "" /\ ~StartsWith(imports[k], "//")
          /\ (StartsWith(imports[k], "./") \/ StartsWith(imports[k], "../"))
          /\ GoReadThrown(fs, flt, Resolve(Dirname(filePath), Path(imports[k])), k)
               # NothingThrown
  THEN GoReadThrown(fs, flt, Resolve(Dirname(filePath), Path(imports[k])), k)
  ELSE GoImportsThrown(fs, flt, filePath, imports, k + 1)

\* what findRelationshipsForFile throws for a file with the given content
RelateThrown(fs, order, flt, filePath, module, content) ==
  IF ~IsFile(fs, filePath) \/ (flt.op = "readFile" /\ flt.path = Abs(filePath))
  THEN Thrown(Err("readFile", filePath, "relationships"), 0)
  ELSE IF module.language = "go"
  THEN GoImportsThrown(fs, flt, filePath, content.imports, 1)
  ELSE IF \E i \in 1..Len(content.imports) : content.imports[i] # ""
  THEN ProjectRootThrown(fs, order, flt, Dirname(filePath))
  ELSE NothingThrown

\* the error and the edges pushed, given the content and what was thrown: when
\* thrown, the edges are those of the imports handled before
OutcomeOf(fs, order, map, filePath, module, content, thrown) ==
  [error |-> thrown.error,
   edges |-> RelationshipsIn(fs, order, map, filePath, module,
                             IF thrown.error = NoError THEN content
                             ELSE [NoContent EXCEPT
                                     !.imports = SubSeq(content.imports, 1, thrown.before)])]

\* findRelationshipsForFile where an operation may fail: the error it throws
\* (NoError when it returns) and the edges it pushed
RelateOutcome(fs, order, flt, map, filePath, module) ==
  OutcomeOf(fs, order, map, filePath, module, FileContent(Abs(filePath)),
            RelateThrown(fs, order, flt, filePath, module, FileContent(Abs(filePath))))

\* ---------------------------------------------------------------- service grouping
RECURSIVE GroupFiles(_, _)
GroupFiles(files, groups) ==
  IF Len(files) = 0 THEN groups
  ELSE LET serviceName == ExtractServiceName(Head(files))
           had == IF serviceName \in KeySet(groups) THEN groups
                  ELSE MapSet(groups, serviceName, <<>>)
       IN GroupFiles(Tail(files),
                     MapSet(had, serviceName, Append(MapGet(had, serviceName), Head(files))))

RECURSIVE GroupFilesPerDirectory(_, _)
GroupFilesPerDirectory(files, groups) ==
  IF Len(files) = 0 THEN groups
  ELSE LET k == <<ExtractServiceName(Head(files)), Dirname(Head(files))>>
           had == IF k \in KeySet(groups) THEN groups ELSE MapSet(groups, k, <<>>)
       IN GroupFilesPerDirectory(Tail(files),
                                 MapSet(had, k, Append(MapGet(had, k), Head(files))))

\* GroupFilesByService keeping the files of different directories apart
GroupFilesByServicePerDirectory(map) ==
  LET g == GroupFilesPerDirectory(Keys(map), <<>>) IN
  [i \in 1..Len(g) |-> [key |-> g[i].key[1], value |-> g[i].value]]

\* groupFilesByService: service name -> member files, in insertion order
GroupFilesByService(map) == GroupFiles(Keys(map), <<>>)

Buckets == {"controller", "service", "model", "repository", "config", "utility", "test"}

\* BucketOf without the default branch of the switch
BucketOfWithoutDefault(filePath) == CategorizeFile(filePath)

\* the switch of createServiceContext: the bucket a file's module is pushed to
BucketOf(filePath) ==
  LET fileType == CategorizeFile(filePath) IN
  IF fileType \in Buckets THEN fileType ELSE "utility"

\* RelevantRelationship looking at the source file only
RelevantBySourceOnly(files, rel) == \E i \in 1..Len(files) : files[i] = rel.sourceFile

\* the relationship filter of createServiceContext
RelevantRelationship(files, rel) ==
  \/ \E i \in 1..Len(files) : files[i] = rel.sourceFile
  \/ \E i \in 1..Len(files) : files[i] = rel.targetFile

\* FactSources taking the data models from the repository bucket
FactSourcesFromRepositories ==
  [apiEndpoints |-> "controller", businessLogic |-> "service", dataModels |-> "repository"]

\* the case of the switch that feeds each fact list of the context
FactSources ==
  [apiEndpoints |-> "controller", businessLogic |-> "service", dataModels |-> "model"]

CreateServiceContext(map, rels, serviceName, rootPath, files) ==
  LET known == SelectSeq(files, LAMBDA f : f \in KeySet(map))
      placed == FlatMap(known, LAMBDA f : <<[bucket |-> BucketOf(f),
                                             module |-> MapGet(map, f)]>>)
      Bucket(b) == FlatMap(placed, LAMBDA x : IF x.bucket = b THEN <<x.module>> ELSE <<>>)
  IN [serviceName |-> serviceName,
      rootPath |-> rootPath,
      controllers |-> Bucket("controller"),
      services |-> Bucket("service"),
      models |-> Bucket("model"),
      repositories |-> Bucket("repository"),
      configurations |-> Bucket("config"),
      utilities |-> Bucket("utility"),
      tests |-> Bucket("test"),
      relationships |-> SelectSeq(rels, LAMBDA r : RelevantRelationship(files, r)),
      apiEndpoints |-> FlatMap(Bucket(FactSources.apiEndpoints), LAMBDA m : m.endpoints),
      businessLogic |-> FlatMap(Bucket(FactSources.businessLogic), LAMBDA m : m.classes),
      dataModels |-> FlatMap(Bucket(FactSources.dataModels), LAMBDA m : m.classes)]

GroupIntoServiceContexts(map, rels, basePath) ==
  LET serviceGroups == GroupFilesByService(map)
      named == [i \in 1..Len(serviceGroups) |->
                  CreateServiceContext(map, rels, serviceGroups[i].key, basePath,
                                       serviceGroups[i].value)]
      processedFiles == UNION {{serviceGroups[i].value[j] : j \in 1..Len(serviceGroups[i].value)}
                                 : i \in 1..Len(serviceGroups)}
      ungroupedFiles == SelectSeq(Keys(map), LAMBDA f : f \notin processedFiles)
  IN IF Len(ungroupedFiles) > 0
     THEN Append(named, CreateServiceContext(map, rels, "General", basePath, ungroupedFiles))
     ELSE named

\* ---------------------------------------------------------------- dependency graph
\* Array.from(new Set(items)): the items without repetition, in first-occurrence order
RECURSIVE Distinct(_)
Distinct(s) ==
  IF Len(s) = 0 THEN <<>>
  ELSE LET init == Distinct(SubSeq(s, 1, Len(s) - 1))
           last == s[Len(s)] IN
       IF \E i \in 1..Len(init) : init[i] = last THEN init ELSE Append(init, last)

\* TouchesService looking at the source file only
TouchesServiceBySource(rel, serviceName) ==
  ExtractServiceName(rel.sourceFile) = serviceName

\* the condition under which getServiceDependencyGraph takes a relationship
TouchesService(rel, serviceName) ==
  \/ ExtractServiceName(rel.sourceFile) = serviceName
  \/ ExtractServiceName(rel.targetFile) = serviceName

GetServiceDependencyGraph(rels, serviceName) ==
  LET taken == SelectSeq(rels, LAMBDA r : TouchesService(r, serviceName)) IN
  [nodes |-> Distinct(FlatMap(taken, LAMBDA r : <<Basename(r.sourceFile),
                                                  Basename(r.targetFile)>>)),
   edges |-> [i \in 1..Len(taken) |->
                [from |-> Basename(taken[i].sourceFile),
                 to |-> Basename(taken[i].targetFile),
                 type |-> taken[i].relationType]]]

\* ---------------------------------------------------------------- the pipeline's world
\* Model of DocumentationPipeline (automation/pipeline.ts) with its FileWatcher,
\* PageMappingService and ConfluenceClient.  A file path is a string here.

\* Config.getSourceDirectories() when SOURCE_DIRECTORIES is not set
SourceDirectories == <<"./src">>

\* Config.getExcludePatterns() when EXCLUDE_PATTERNS is not set
ExcludePatterns == <<"node_modules", ".git", "dist", "build", "*.test.*", "*.spec.*">>

\* the files of the source tree, in the order a traversal meets them
SourceFiles == <<"src/Order.java", "src/build/gen.go", "src/notes.md", "src/user.go">>

\* the files that exist
Tree == {SourceFiles[i] : i \in 1..Len(SourceFiles)}

\* a path that names no file
MissingFile == "src/gone.go"

\* String.prototype.replace(/\*/g, '') of a pattern whose "*" stand at its ends:
\* the part a path must contain for the pattern's regular expression to match
RECURSIVE WithoutStars(_)
WithoutStars(s) ==
  IF Len(s) = 0 THEN s
  ELSE (IF CharAt(s, 1) = "*" THEN "" ELSE CharAt(s, 1)) \o WithoutStars(SubSeq(s, 2, Len(s)))

\* one exclude pattern against a path: a case-insensitive regular expression
\* for a pattern with "*", a substring test for any other
MatchesExclude(filePath, pattern) ==
  IF Includes(pattern, "*")
  THEN Includes(ToLowerCase(filePath), ToLowerCase(WithoutStars(pattern)))
  ELSE Includes(filePath, pattern)

\* the function createIgnoreFunction returns, on a normalized path
Ignored(filePath) ==
  \E i \in 1..Len(ExcludePatterns) : MatchesExclude(filePath, ExcludePatterns[i])

\* ParserFactory.getParserByFileExtension(filePath) !== null
HasParser(filePath) ==
  ToLowerCase(Extname(Basename(Path(filePath)))) \in SupportedExtensions

\* the string a normalized relative directory denotes: "./src" is "src"
DirectoryString(dir) == IF StartsWith(dir, "./") THEN SubSeq(dir, 3, Len(dir)) ELSE dir

\* FileWatcher.scanDirectory(directory): the files below it whose extension is
\* supported and that no exclude pattern matches, in traversal order
ScanDirectory(files, directory) ==
  SelectSeq(SourceFiles,
            LAMBDA f : /\ f \in files
                       /\ StartsWith(f, DirectoryString(directory) \o "/")
                       /\ ~Ignored(f)
                       /\ Extname(Basename(Path(f))) \in SupportedExtensions)

\* FileWatcher.scanDirectories(): the scan of every watched directory
RECURSIVE ScanDirectories(_, _)
ScanDirectories(files, watched) ==
  IF watched = <<>> THEN <<>>
  ELSE ScanDirectory(files, Head(watched)) \o ScanDirectories(files, Tail(watched))

\* the files processAllFiles hands to processFiles: those of the scan for which
\* getFileInfo reports a parser
SupportedFilesOf(files, watched) ==
  SelectSeq(ScanDirectories(files, watched), LAMBDA f : f \in files /\ HasParser(f))

\* FileWatcher.watchedDirectories: empty until the watcher is started
Watched == {<<>>, SourceDirectories}

\* scanDirectories() of the tree, for each value of watchedDirectories
Scan == [w \in Watched |-> ScanDirectories(Tree, w)]

\* the files processAllFiles processes, for each value of watchedDirectories
SupportedFiles == [w \in Watched |-> SupportedFilesOf(Tree, w)]

\* the files of the tree ParserFactory has a parser for
Parseable == {f \in Tree : HasParser(f)}

Alphanumeric == "abcdefghijklmnopqrstuvwxyz0123456789"

\* replace(/[^a-z0-9]/g, '-').replace(/-+/g, '-'): every run of other
\* characters becomes one "-"
RECURSIVE Dashed(_)
Dashed(s) ==
  IF Len(s) = 0 THEN s
  ELSE IF Includes(Alphanumeric, CharAt(s, 1)) THEN CharAt(s, 1) \o Dashed(SubSeq(s, 2, Len(s)))
  ELSE IF Len(s) > 1 /\ ~Includes(Alphanumeric, CharAt(s, 2)) THEN Dashed(SubSeq(s, 2, Len(s)))
  ELSE "-" \o Dashed(SubSeq(s, 2, Len(s)))

\* replace(/^-|-$/g, '')
Trimmed(s) ==
  LET a == IF StartsWith(s, "-") THEN SubSeq(s, 2, Len(s)) ELSE s IN
  IF EndsWith(a, "-") THEN SubSeq(a, 1, Len(a) - 1) ELSE a

\* DocumentationTransformer.generatePageId(filePath)
GeneratePageId(filePath) ==
  LET p == Path(filePath) IN
  Trimmed(Dashed(ToLowerCase(BasenameExt(p, Extname(Basename(p))))))

\* the id of the page of each path processFile is called with
PageIds == [f \in Tree \cup {MissingFile} |-> GeneratePageId(f)]

\* the id of a dry run's page result, as the page's id
DryRunIdAsIs(pageId) == pageId

\* the id a dry run puts in a page result
DryRunId(pageId) == "dry-run-" \o pageId

\* the id Confluence gives a page it creates for a document
CreatedId(pageId) == "confluence-" \o pageId

\* the pages generateServiceDocumentation makes for a service context: three
\* always, two more when the context has business logic and data models
ServicePages(context) ==
  LET name == ToLowerCase(context.serviceName) IN
  <<"service-" \o name \o "-overview", "service-" \o name \o "-api",
    "service-" \o name \o "-architecture">>
  \o (IF context.businessLogic THEN <<"service-" \o name \o "-business-logic">> ELSE <<>>)
  \o (IF context.dataModels THEN <<"service-" \o name \o "-data-models">> ELSE <<>>)

CrossServicePageId == "cross-service-architecture"

OverviewPageId == "architecture-overview"

\* what the context analyzer may return to processWithMultiFileContext
ContextLists ==
  {<<>>,
   <<[serviceName |-> "User", rootPath |-> "src", businessLogic |-> TRUE, dataModels |-> FALSE]>>,
   <<[serviceName |-> "User", rootPath |-> "src", businessLogic |-> FALSE, dataModels |-> FALSE],
     [serviceName |-> "Order", rootPath |-> "src", businessLogic |-> FALSE, dataModels |-> TRUE]>>}

\* ---------------------------------------------------------------- pipeline state
NoMapping == [confluencePageId |-> "", lastUpdated |-> 0]

\* path.resolve(filePath) of the paths the pipeline meets, computed once
Resolved == [f \in Tree \cup {MissingFile} |-> Abs(Path(f))]

\* path.resolve(filePath): the key a mapping is kept under
MappingKey(filePath) ==
  IF filePath \in DOMAIN Resolved THEN Resolved[filePath] ELSE Abs(Path(filePath))

\* PageMappingService.getMapping(filePath): the mapping under path.resolve(filePath)
GetMapping(map, filePath) ==
  IF MappingKey(filePath) \in KeySet(map) THEN MapGet(map, MappingKey(filePath)) ELSE NoMapping

\* the change syncWithDocumentation(documentation, filePath) makes to the
\* mappings before it saves them: an existing mapping gets a new lastUpdated, a
\* missing one is added under the document's id
SyncWithDocumentation(map, pageId, filePath, time) ==
  IF GetMapping(map, filePath) # NoMapping
  THEN MapSet(map, MappingKey(filePath),
              [GetMapping(map, filePath) EXCEPT !.lastUpdated = time])
  ELSE MapSet(map, MappingKey(filePath), [confluencePageId |-> pageId, lastUpdated |-> time])

\* resetStatistics, without the times and the counters of the multi-file run
NoStatistics ==
  [totalFilesProcessed |-> 0, successfulProcesses |-> 0, failedProcesses |-> 0,
   pagesCreated |-> 0, pagesUpdated |-> 0]

\* updateStatistics(processingTime, success), without the times
UpdateStatistics(s, success) ==
  [s EXCEPT !.totalFilesProcessed = @ + 1,
            !.successfulProcesses = IF success THEN @ + 1 ELSE @,
            !.failedProcesses = IF success THEN @ ELSE @ + 1]

NoId == ""

\* a ProcessingResult; confluencePageId and error are NoId and "" when absent
Result(filePath, success, confluencePageId, message) ==
  [filePath |-> filePath, success |-> success, confluencePageId |-> confluencePageId,
   error |-> message]

NoResult == Result("", FALSE, NoId, "")

\* the state of one processFile(filePath, options) call: the await it stands at,
\* the steps it has taken (parse, transform, confluence, save) and, once
\* settled, its result
Invocation(filePath, options, stage, result) ==
  [filePath |-> filePath, skipUnchanged |-> options.skipUnchanged,
   forceUpdate |-> options.forceUpdate, stage |-> stage, did |-> {},
   pageId |-> NoId, wasUpdated |-> FALSE, result |-> result]

\* the condition under which processFile asks for the file's modification time
ChecksUnchanged(map, filePath, options) ==
  options.skipUnchanged /\ ~options.forceUpdate /\ GetMapping(map, filePath) # NoMapping

\* processFile(filePath, options) up to its first await, given the paths being
\* processed: rejected when the path is among them, else marked and on its way
\* to getFileInfo or to the parser
Begin(processing, map, filePath, options) ==
  IF filePath \in processing
  THEN Invocation(filePath, options, "settled",
                  Result(filePath, FALSE, NoId, "File is already being processed"))
  ELSE Invocation(filePath, options,
                  IF ChecksUnchanged(map, filePath, options) THEN "fileInfo" ELSE "parse",
                  NoResult)

\* currentlyProcessing after that prefix: the rejected call's finally block
\* removes the path, any other call adds it
Marked(processing, filePath) ==
  IF filePath \in processing THEN processing \ {filePath} ELSE processing \cup {filePath}

\* batch.map(filePath => this.processFile(filePath, options)): the calls begin
\* one after the other, before any of them continues
RECURSIVE BeginBatch(_, _, _, _, _)
BeginBatch(paths, options, map, processing, acc) ==
  IF paths = <<>> THEN [running |-> acc, processing |-> processing]
  ELSE BeginBatch(Tail(paths), options, map, Marked(processing, Head(paths)),
                  Append(acc, Begin(processing, map, Head(paths), options)))

\* batches of the default size whatever the options say
BatchSizeOfFive(options) == 5

\* options.batchSize || 5
BatchSize(options) == IF options.batchSize = 0 THEN 5 ELSE options.batchSize

NoTask == [op |-> "none", paths |-> <<>>, options |-> <<>>, next |-> 1, results |-> <<>>]

NothingReturned == [op |-> "none", options |-> <<>>, results |-> <<>>, ran |-> FALSE]

\* what an operation returned: its results, and whether it ran at all
Returned(op, options, results, ran) ==
  [op |-> op, options |-> options, results |-> results, ran |-> ran]

\* PipelineOptions as processFile and processFiles read them
FileOption(skipUnchanged, forceUpdate, batchSize) ==
  [skipUnchanged |-> skipUnchanged, forceUpdate |-> forceUpdate, batchSize |-> batchSize]

\* the options of processFile and processAllFiles: as the command line sets
\* them with and without --force, and none
FileOptions ==
  {FileOption(TRUE, FALSE, 0), FileOption(TRUE, TRUE, 0), FileOption(FALSE, FALSE, 0)}

\* the options of processFiles: those, and batches of one file and of two
BatchOptions == FileOptions \cup {FileOption(TRUE, FALSE, 1), FileOption(TRUE, FALSE, 2)}

\* the options of start
StartOptions ==
  {[processAllFiles |-> a, skipUnchanged |-> s, forceUpdate |-> ~s, batchSize |-> 5] :
     a \in BOOLEAN, s \in BOOLEAN}

\* PipelineOptions as processWithMultiFileContext reads them
MultiFileOption(enabled, services, crossService) ==
  [enableMultiFileContext |-> enabled, generateServiceDocumentation |-> services,
   generateCrossServiceDocumentation |-> crossService,
   skipUnchanged |-> FALSE, forceUpdate |-> FALSE, batchSize |-> 0]

\* the options of processWithMultiFileContext
MultiFileOptions ==
  {MultiFileOption(TRUE, g, c) : g \in BOOLEAN, c \in BOOLEAN}
  \cup {MultiFileOption(FALSE, TRUE, FALSE)}

\* the path lists processFiles is called with
PathLists ==
  {<<>>, <<"src/user.go", "src/Order.java">>, <<"src/user.go", "src/user.go", "src/user.go">>}

\* ---------------------------------------------------------------- state
VARIABLES
  disk,               \* the files that exist, as absolute paths
  unreadable,         \* the files of disk whose parse fails (BaseParser returns null)
  listing,            \* the order in which fs.readdir lists entries
  fault,              \* the file-system operation that fails in this world, if any
  pc,                 \* position of the analyzer: idle, parse, relate, group, done
  directoryPath,      \* argument of the analyzeDirectory call in progress or last made
  allFiles,           \* parseAllFiles: the discovered files
  cursor,             \* index of the next file of the running loop
  codeModules,        \* ContextAnalyzer.codeModules
  fileRelationships,  \* ContextAnalyzer.fileRelationships
  contexts,           \* the ServiceContext[] the last analyzeDirectory returned
  calls,              \* analyzeDirectory calls made on this ContextAnalyzer
  previous,           \* directory and relationships at the time of the call before
  error,              \* what the last analyzeDirectory call rejected with, if it did
  graph               \* the last query made of the analyzer and its result

VARIABLES
  config,             \* Config: dryRun and watchMode
  now,                \* the time: it passes when an operation is called
  mtime,              \* the modification time of each source file
  mappings,           \* PageMappingService.mappings
  mappingWrites,      \* how often the page-mapping file has been written
  confluenceCalls,    \* the create and update requests sent to Confluence
  statistics,         \* DocumentationPipeline.statistics
  currentlyProcessing,\* DocumentationPipeline.currentlyProcessing
  isRunning,          \* DocumentationPipeline.isRunning
  watchedDirectories, \* FileWatcher.watchedDirectories
  task,               \* the pipeline operation in progress: its paths, options and results
  running,            \* the processFile calls of the batch in progress or last made
  returned,           \* what the last pipeline operation returned
  operations,         \* calls of pipeline operations made that count for MaxOperations
  processingQueue,    \* DocumentationPipeline.processingQueue
  timers              \* the timers of processQueue that have not fired yet

VARIABLES
  directories,        \* the clone directories that exist
  tempDirectories,    \* RepositoryCloner.tempDirectories
  clones              \* the calls of the cloner

analyzer == <<disk, unreadable, listing, fault, pc, directoryPath, allFiles, cursor, codeModules,
              fileRelationships, contexts, calls, previous, error, graph>>

pipeline == <<config, now, mtime, mappings, mappingWrites, confluenceCalls, statistics,
              currentlyProcessing, isRunning, watchedDirectories, task, running, returned,
              operations, processingQueue, timers>>

cloner == <<directories, tempDirectories, clones>>

\* what a pipeline action leaves alone
elsewhere == <<analyzer, cloner>>

\* the watcher's queue and its timers
queued == <<processingQueue, timers>>

\* what an analyzer action leaves alone
outside == <<pipeline, cloner>>

vars == <<analyzer, pipeline, cloner>>

world == <<disk, unreadable, listing, fault>>

\* new DocumentationPipeline() under a configuration, with the mappings of the
\* mapping file loaded
NewPipeline(cfg, loaded) ==
  /\ config = cfg
  /\ now = 1
  /\ mtime = [f \in Tree |-> 0]
  /\ mappings = loaded
  /\ mappingWrites = 0
  /\ confluenceCalls = <<>>
  /\ statistics = NoStatistics
  /\ currentlyProcessing = {}
  /\ isRunning = FALSE
  /\ watchedDirectories = <<>>
  /\ task = NoTask
  /\ running = <<>>
  /\ returned = NothingReturned
  /\ operations = 0
  /\ processingQueue = <<>>
  /\ timers = 0

\* a pipeline that is not used
NoPipeline == NewPipeline([dryRun |-> FALSE, watchMode |-> FALSE], <<>>)

\* new RepositoryCloner()
NewCloner ==
  /\ directories = {}
  /\ tempDirectories = {}
  /\ clones = <<>>

NoGraph ==
  [service |-> "", nodes |-> <<>>, edges |-> <<>>, asked |-> FALSE, op |-> "none", list |-> <<>>]

NoPrevious == [directory |-> <<>>, relationships |-> <<>>, modules |-> <<>>, made |-> FALSE]

\* a ContextAnalyzer just constructed
Fresh ==
  /\ pc = "idle"
  /\ directoryPath = <<>>
  /\ allFiles = <<>>
  /\ cursor = 1
  /\ codeModules = <<>>
  /\ fileRelationships = <<>>
  /\ contexts = <<>>
  /\ calls = 0
  /\ previous = NoPrevious
  /\ error = NoError
  /\ graph = NoGraph

\* a world in which one file-system operation may fail
InitWithFaults ==
  /\ disk \in UNION {{d \in SUBSET p : Cardinality(d) <= MaxFiles} : p \in Projects}
  /\ unreadable \in {u \in SUBSET disk : Cardinality(u) <= 1}
  /\ listing \in {"asc", "desc"}
  /\ fault \in IF unreadable = {} THEN Faults(disk) \cup {NoFault} ELSE {NoFault}
  /\ Fresh
  /\ NoPipeline
  /\ NewCloner

Init ==
  /\ disk \in UNION {{d \in SUBSET p : Cardinality(d) <= MaxFiles} : p \in Projects}
  /\ unreadable \in {u \in SUBSET disk : Cardinality(u) <= 1}
  /\ listing \in {"asc", "desc"}
  /\ fault = NoFault
  /\ Fresh
  /\ NoPipeline
  /\ NewCloner

\* new ContextAnalyzer(): an empty module table and relationship collection
Construct ==
  /\ pc \in {"idle", "done", "failed"}
  /\ calls > 0
  /\ pc' = "idle"
  /\ codeModules' = <<>>
  /\ fileRelationships' = <<>>
  /\ contexts' = <<>>
  /\ calls' = 0
  /\ previous' = NoPrevious
  /\ error' = NoError
  /\ graph' = NoGraph
  /\ allFiles' = <<>>
  /\ cursor' = 1
  /\ directoryPath' = <<>>
  /\ UNCHANGED <<world, outside>>

\* the outcome of findAllSupportedFiles: the files, or the error thrown, with
\* which analyzeDirectory rejects
DiscoveryOutcome(files, thrown) ==
  /\ error' = thrown
  /\ IF thrown = NoError
     THEN allFiles' = files /\ pc' = "parse" /\ contexts' = contexts
     ELSE allFiles' = <<>> /\ pc' = "failed" /\ contexts' = <<>>

\* analyzeDirectory(d) up to the end of findAllSupportedFiles
AnalyzeDirectory(d) ==
  /\ pc \in {"idle", "done", "failed"}
  /\ calls < MaxRuns
  /\ directoryPath' = d
  /\ cursor' = 1
  /\ calls' = calls + 1
  /\ previous' = IF calls = 0 THEN NoPrevious
                 ELSE [directory |-> directoryPath, relationships |-> fileRelationships,
                       modules |-> codeModules, made |-> TRUE]
  /\ graph' = NoGraph
  /\ DiscoveryOutcome(FindAllSupportedFiles(disk, listing, d),
                TraverseError(disk, listing, fault, d))
  /\ UNCHANGED <<world, outside, codeModules, fileRelationships>>

\* one iteration of the loop of parseAllFiles
ParseNextFile ==
  /\ pc = "parse"
  /\ cursor <= Len(allFiles)
  /\ LET filePath == allFiles[cursor]
         module == ParseFile(disk, unreadable, filePath) IN
     codeModules' = IF module # NoModule THEN MapSet(codeModules, filePath, module)
                    ELSE codeModules
  /\ cursor' = cursor + 1
  /\ graph' = NoGraph
  /\ UNCHANGED <<world, outside, error, pc, directoryPath, allFiles, fileRelationships, contexts, calls,
                 previous>>

\* analyzeFileRelationships starting while parseAllFiles may still have files left
StartRelationshipsEarly ==
  /\ pc = "parse"
  /\ pc' = "relate"
  /\ cursor' = 1
  /\ graph' = NoGraph
  /\ UNCHANGED <<world, outside, error, directoryPath, allFiles, codeModules, fileRelationships, contexts,
                 calls, previous>>

\* parseAllFiles returns; analyzeFileRelationships starts
StartRelationships ==
  /\ pc = "parse"
  /\ cursor > Len(allFiles)
  /\ pc' = "relate"
  /\ cursor' = 1
  /\ graph' = NoGraph
  /\ UNCHANGED <<world, outside, error, directoryPath, allFiles, codeModules, fileRelationships, contexts,
                 calls, previous>>

\* findRelationshipsForFile leaving its edges in place of the collection
RelatedReplacing(outcome) ==
  /\ fileRelationships' = outcome.edges
  /\ error' = outcome.error
  /\ IF outcome.error = NoError
     THEN cursor' = cursor + 1 /\ pc' = pc /\ contexts' = contexts
     ELSE cursor' = cursor /\ pc' = "failed" /\ contexts' = <<>>

\* the outcome of findRelationshipsForFile: its edges are appended, and when it
\* threw analyzeDirectory rejects with the error
Related(outcome) ==
  /\ fileRelationships' = fileRelationships \o outcome.edges
  /\ error' = outcome.error
  /\ IF outcome.error = NoError
     THEN cursor' = cursor + 1 /\ pc' = pc /\ contexts' = contexts
     ELSE cursor' = cursor /\ pc' = "failed" /\ contexts' = <<>>

\* one iteration of the loop of analyzeFileRelationships
RelateNextFile ==
  /\ pc = "relate"
  /\ cursor <= Len(codeModules)
  /\ Related(RelateOutcome(disk, listing, fault, codeModules, codeModules[cursor].key,
                           codeModules[cursor].value))
  /\ graph' = NoGraph
  /\ UNCHANGED <<world, outside, directoryPath, allFiles, codeModules, calls, previous>>

\* analyzeFileRelationships returns; extractCrossFileReferences changes nothing
ExtractCrossFileReferences ==
  /\ pc = "relate"
  /\ cursor > Len(codeModules)
  /\ pc' = "group"
  /\ graph' = NoGraph
  /\ UNCHANGED <<world, outside, error, directoryPath, allFiles, cursor, codeModules, fileRelationships,
                 contexts, calls, previous>>

\* groupIntoServiceContexts; analyzeDirectory resolves with the contexts
ReturnServiceContexts ==
  /\ pc = "group"
  /\ contexts' = GroupIntoServiceContexts(codeModules, fileRelationships, directoryPath)
  /\ pc' = "done"
  /\ graph' = NoGraph
  /\ UNCHANGED <<world, outside, error, directoryPath, allFiles, cursor, codeModules, fileRelationships,
                 calls, previous>>

\* the service names a caller may ask the graph for: those of the known files
\* and of the relationships' endpoints, and one that names no file
QueryNames ==
  {ExtractServiceName(f) : f \in KeySet(codeModules)}
  \cup {ExtractServiceName(fileRelationships[i].sourceFile) : i \in 1..Len(fileRelationships)}
  \cup {ExtractServiceName(fileRelationships[i].targetFile) : i \in 1..Len(fileRelationships)}
  \cup {"General"}

\* getServiceDependencyGraph(serviceName), between two analyses
QueryDependencyGraph(serviceName) ==
  /\ pc = "done"
  /\ graph' = [service |-> serviceName, asked |-> TRUE, op |-> "getServiceDependencyGraph",
                list |-> <<>>]
              @@ GetServiceDependencyGraph(fileRelationships, serviceName)
  /\ UNCHANGED <<world, outside, error, pc, directoryPath, allFiles, cursor, codeModules, fileRelationships,
                 contexts, calls, previous>>

\* getFileRelationships(), between two analyses: the collection itself
QueryFileRelationships ==
  /\ pc = "done"
  /\ graph' = [NoGraph EXCEPT !.op = "getFileRelationships", !.list = fileRelationships]
  /\ UNCHANGED <<world, outside, error, pc, directoryPath, allFiles, cursor, codeModules, fileRelationships,
                 contexts, calls, previous>>

\* getCrossReferences(), between two analyses: crossReferences, to which
\* extractCrossFileReferences adds nothing
QueryCrossReferences ==
  /\ pc = "done"
  /\ graph' = [NoGraph EXCEPT !.op = "getCrossReferences"]
  /\ UNCHANGED <<world, outside, error, pc, directoryPath, allFiles, cursor, codeModules, fileRelationships,
                 contexts, calls, previous>>

Next ==
  \/ Construct
  \/ \E d \in Directories : AnalyzeDirectory(d)
  \/ ParseNextFile
  \/ StartRelationships
  \/ RelateNextFile
  \/ ExtractCrossFileReferences
  \/ ReturnServiceContexts
  \/ \E n \in QueryNames : QueryDependencyGraph(n)
  \/ QueryFileRelationships
  \/ QueryCrossReferences

Spec == Init /\ [][Next]_vars

\* the directories analyzeDirectory is called with when one may be missing
DirectoriesWithFaults == Directories \cup {Path("./src")}

NextWithFaults ==
  \/ Construct
  \/ \E d \in DirectoriesWithFaults : AnalyzeDirectory(d)
  \/ ParseNextFile
  \/ StartRelationships
  \/ RelateNextFile
  \/ ExtractCrossFileReferences
  \/ ReturnServiceContexts
  \/ \E n \in QueryNames : QueryDependencyGraph(n)
  \/ QueryFileRelationships
  \/ QueryCrossReferences

\* the analyzer in a world where one file-system operation may fail
SpecWithFaults == InitWithFaults /\ [][NextWithFaults]_vars

\* ---------------------------------------------------------------- the pipeline
Min(a, b) == IF a <= b THEN a ELSE b

\* the mappings the PageMappingService loads from the mapping file: one file
\* of the tree has a page
LoadedMappings ==
  <<[key |-> Abs(Path("src/user.go")),
     value |-> [confluencePageId |-> "confluence-user", lastUpdated |-> 0]]>>

PipelineInit ==
  /\ disk = {}
  /\ unreadable = {}
  /\ listing = "asc"
  /\ fault = NoFault
  /\ Fresh
  /\ NewCloner
  /\ \E cfg \in [dryRun : BOOLEAN, watchMode : BOOLEAN] :
        NewPipeline(cfg, LoadedMappings)

\* a public operation is called: no other is in progress
Call ==
  /\ task = NoTask
  /\ operations < MaxOperations
  /\ operations' = operations + 1
  /\ now' = now + 1

\* the requests and writes of an operation are counted from its call
NothingSent ==
  /\ confluenceCalls' = <<>>
  /\ mappingWrites' = 0

\* an operation returns without having started a processFile call
Returns(op, options, ran) ==
  /\ task' = NoTask
  /\ running' = <<>>
  /\ currentlyProcessing' = currentlyProcessing
  /\ returned' = Returned(op, options, <<>>, ran)

\* the first batch of processFiles has begun
Batch(op, options, paths, begun) ==
  /\ task' = [op |-> op, paths |-> paths, options |-> options,
              next |-> BatchSize(options) + 1, results |-> <<>>]
  /\ running' = begun.running
  /\ currentlyProcessing' = begun.processing
  /\ returned' = NothingReturned

\* processFiles(paths, options) up to the await of its first batch
ProcessFilesBegins(op, options, paths) ==
  IF paths = <<>>
  THEN Returns(op, options, TRUE)
  ELSE Batch(op, options, paths,
             BeginBatch(SubSeq(paths, 1, Min(BatchSize(options), Len(paths))), options,
                        mappings, currentlyProcessing, <<>>))

\* processFile(filePath, options) is called
ProcessFile(filePath, options) ==
  /\ Call
  /\ NothingSent
  /\ ProcessFilesBegins("processFile", options, <<filePath>>)
  /\ UNCHANGED <<queued, config, mtime, mappings, statistics, isRunning, watchedDirectories,
                 elsewhere>>

\* processFiles(paths, options) is called
ProcessFiles(paths, options) ==
  /\ Call
  /\ NothingSent
  /\ ProcessFilesBegins("processFiles", options, paths)
  /\ UNCHANGED <<queued, config, mtime, mappings, statistics, isRunning, watchedDirectories,
                 elsewhere>>

\* processAllFiles(options) is called: the scan, then processFiles
ProcessAllFiles(options) ==
  /\ Call
  /\ NothingSent
  /\ ProcessFilesBegins("processAllFiles", options, SupportedFiles[watchedDirectories])
  /\ UNCHANGED <<queued, config, mtime, mappings, statistics, isRunning, watchedDirectories,
                 elsewhere>>

\* FileWatcher.watchedDirectories after start() has started the watcher in
\* watch mode only
WatchedAfterStart(cfg, watched) == IF cfg.watchMode THEN SourceDirectories ELSE watched

\* start(options) on a pipeline that is not running
Started(options, watched) ==
  /\ isRunning' = TRUE
  /\ statistics' = NoStatistics
  /\ watchedDirectories' = watched
  /\ IF options.processAllFiles
     THEN ProcessFilesBegins("start", options, SupportedFiles[watched])
     ELSE Returns("start", options, TRUE)

\* start(options) is called
Start(options) ==
  /\ IF ~isRunning /\ ~options.processAllFiles
     THEN task = NoTask /\ UNCHANGED <<operations, now>>
     ELSE Call
  /\ IF isRunning
     THEN Returns("start", options, FALSE)
          /\ UNCHANGED <<isRunning, statistics, watchedDirectories>>
     ELSE Started(options, WatchedAfterStart(config, watchedDirectories))
  /\ NothingSent
  /\ UNCHANGED <<queued, config, mtime, mappings, elsewhere>>

\* stop() while no operation is in progress
Stop ==
  /\ task = NoTask
  /\ isRunning
  /\ currentlyProcessing = {}
  /\ isRunning' = FALSE
  /\ UNCHANGED <<queued, config, now, mtime, mappings, mappingWrites, confluenceCalls, statistics,
                 currentlyProcessing, watchedDirectories, task, running, returned, operations,
                 elsewhere>>

\* the call continues to its next await
Advance(k, stage, steps) ==
  /\ running' = [running EXCEPT ![k].stage = stage, ![k].did = @ \cup steps]
  /\ currentlyProcessing' = currentlyProcessing

\* the call returns its result; its finally block removes the mark
Settle(k, result, steps) ==
  /\ running' = [running EXCEPT ![k].stage = "settled", ![k].result = result,
                               ![k].did = @ \cup steps]
  /\ currentlyProcessing' = currentlyProcessing \ {running[k].filePath}

\* the catch block of processFile
Fail(k, message, step) ==
  /\ statistics' = UpdateStatistics(statistics, FALSE)
  /\ Settle(k, Result(running[k].filePath, FALSE, NoId, message), {step})

\* the end of the try block of processFile
Succeed(k, confluencePageId, step) ==
  /\ statistics' = UpdateStatistics(statistics, TRUE)
  /\ Settle(k, Result(running[k].filePath, TRUE, confluencePageId, ""), {step})

\* fileModified <= lastProcessed, without the equality
UnchangedStrictly(modified, lastUpdated) == modified < lastUpdated

\* fileModified <= lastProcessed
Unchanged(modified, lastUpdated) == modified <= lastUpdated

\* getFileInfo returns to the skip test of processFile
FileInfoReturns(k) ==
  /\ running[k].stage = "fileInfo"
  /\ IF /\ running[k].filePath \in Tree
        /\ Unchanged(mtime[running[k].filePath],
                     GetMapping(mappings, running[k].filePath).lastUpdated)
     THEN Settle(k, Result(running[k].filePath, TRUE, NoId, ""), {})
     ELSE Advance(k, "parse", {})
  /\ UNCHANGED <<queued, config, now, mtime, mappings, mappingWrites, confluenceCalls, statistics,
                 isRunning, watchedDirectories, task, returned, operations, elsewhere>>

\* ParserFactory.parseFile returns a module, or null
ParseReturns(k, parsed) ==
  /\ running[k].stage = "parse"
  /\ parsed => running[k].filePath \in Parseable
  /\ IF parsed
     THEN Advance(k, "transform", {"parse"}) /\ statistics' = statistics
     ELSE Fail(k, "Unable to parse file or file not supported", "parse")
  /\ UNCHANGED <<queued, config, now, mtime, mappings, mappingWrites, confluenceCalls,
                 isRunning, watchedDirectories, task, returned, operations, elsewhere>>

\* the request processFile sends to Confluence for a document: an update of the
\* mapped page, or the creation of a page
Request(mapping, pageId) ==
  IF mapping # NoMapping
  THEN [op |-> "update", id |-> mapping.confluencePageId, page |-> pageId]
  ELSE [op |-> "create", id |-> CreatedId(pageId), page |-> pageId]

\* processFile sends the request and awaits the page
Upload(k, request) ==
  /\ confluenceCalls' = Append(confluenceCalls, request)
  /\ running' = [running EXCEPT ![k].stage = "confluence", ![k].did = @ \cup {"transform"},
                               ![k].pageId = request.id,
                               ![k].wasUpdated = request.op = "update"]
  /\ currentlyProcessing' = currentlyProcessing
  /\ statistics' = statistics

\* transformCodeToDocumentation returns a page, or throws
TransformReturns(k, generated) ==
  /\ running[k].stage = "transform"
  /\ IF ~generated
     THEN Fail(k, "transform", "transform") /\ confluenceCalls' = confluenceCalls
     ELSE IF config.dryRun
     THEN Succeed(k, DryRunId(PageIds[running[k].filePath]), "transform")
          /\ confluenceCalls' = confluenceCalls
     ELSE Upload(k, Request(GetMapping(mappings, running[k].filePath),
                            PageIds[running[k].filePath]))
  /\ UNCHANGED <<queued, config, now, mtime, mappings, mappingWrites,
                 isRunning, watchedDirectories, task, returned, operations, elsewhere>>

\* updatePage or createPage returns the page, or throws
ConfluenceReturns(k, answered) ==
  /\ running[k].stage = "confluence"
  /\ IF answered
     THEN /\ statistics' = IF running[k].wasUpdated
                           THEN [statistics EXCEPT !.pagesUpdated = @ + 1]
                           ELSE [statistics EXCEPT !.pagesCreated = @ + 1]
          /\ mappings' = SyncWithDocumentation(mappings, PageIds[running[k].filePath],
                                               running[k].filePath, now)
          /\ Advance(k, "save", {"confluence"})
     ELSE Fail(k, "confluence", "confluence") /\ mappings' = mappings
  /\ UNCHANGED <<queued, config, now, mtime, mappingWrites, confluenceCalls,
                 isRunning, watchedDirectories, task, returned, operations, elsewhere>>

\* saveMappings returns, or throws
SaveReturns(k, saved) ==
  /\ running[k].stage = "save"
  /\ IF saved
     THEN Succeed(k, running[k].pageId, "save") /\ mappingWrites' = mappingWrites + 1
     ELSE Fail(k, "save", "save") /\ mappingWrites' = mappingWrites
  /\ UNCHANGED <<queued, config, now, mtime, mappings, confluenceCalls,
                 isRunning, watchedDirectories, task, returned, operations, elsewhere>>

\* the results of the batch that has settled, in the order of its paths
BatchResults == [k \in 1..Len(running) |-> running[k].result]

\* processFiles goes on with the next batch
NextBatch(results, begun) ==
  /\ task' = [task EXCEPT !.results = results, !.next = @ + BatchSize(task.options)]
  /\ running' = begun.running
  /\ currentlyProcessing' = begun.processing
  /\ returned' = returned

\* Promise.all of a batch resolves: the next batch begins, or the operation returns
BatchSettles ==
  /\ task # NoTask
  /\ \A k \in 1..Len(running) : running[k].stage = "settled"
  /\ IF task.next <= Len(task.paths)
     THEN NextBatch(task.results \o BatchResults,
                    BeginBatch(SubSeq(task.paths, task.next,
                                      Min(task.next + BatchSize(task.options) - 1,
                                          Len(task.paths))),
                               task.options, mappings, currentlyProcessing, <<>>))
     ELSE /\ task' = NoTask
          /\ returned' = Returned(task.op, task.options, task.results \o BatchResults, TRUE)
          /\ UNCHANGED <<running, currentlyProcessing>>
  /\ UNCHANGED <<queued, config, now, mtime, mappings, mappingWrites, confluenceCalls, statistics,
                 isRunning, watchedDirectories, operations, elsewhere>>

\* what the pages of processWithMultiFileContext have done so far
NothingPublished(map, writes, requests, stats) ==
  [mappings |-> map, mappingWrites |-> writes, confluenceCalls |-> requests,
   statistics |-> stats, results |-> <<>>]

\* one page of processServiceContext: noted in a dry run; otherwise sent with
\* createOrUpdatePage and, when Confluence answers, synchronised and saved
PublishPage(dryRun, answered, time, rootPath, pageId, done) ==
  IF dryRun
  THEN [done EXCEPT !.results = Append(@, Result(rootPath, TRUE, DryRunId(pageId), "")),
                    !.statistics.pagesCreated = @ + 1]
  ELSE IF answered
  THEN [done EXCEPT !.confluenceCalls =
                       Append(@, [op |-> "createOrUpdate", id |-> CreatedId(pageId),
                                  page |-> pageId]),
                    !.mappings = SyncWithDocumentation(@, pageId, rootPath, time),
                    !.mappingWrites = @ + 1,
                    !.results = Append(@, Result(rootPath, TRUE, CreatedId(pageId), "")),
                    !.statistics.pagesCreated = @ + 1]
  ELSE [done EXCEPT !.confluenceCalls =
                       Append(@, [op |-> "createOrUpdate", id |-> CreatedId(pageId),
                                  page |-> pageId]),
                    !.results = Append(@, Result(rootPath, FALSE, NoId, "confluence"))]

\* the loop over the pages of one service context
RECURSIVE PublishPages(_, _, _, _, _, _)
PublishPages(dryRun, answered, time, rootPath, pages, done) ==
  IF pages = <<>> THEN done
  ELSE PublishPages(dryRun, answered, time, rootPath, Tail(pages),
                    PublishPage(dryRun, answered, time, rootPath, Head(pages), done))

\* the loop of processWithMultiFileContext over the service contexts
RECURSIVE PublishServices(_, _, _, _, _)
PublishServices(dryRun, answered, time, serviceContexts, done) ==
  IF serviceContexts = <<>> THEN done
  ELSE PublishServices(dryRun, answered, time, Tail(serviceContexts),
                       PublishPages(dryRun, answered, time, Head(serviceContexts).rootPath,
                                    ServicePages(Head(serviceContexts)), done))

\* processCrossServiceDocumentation: one page, not synchronised with the mappings
PublishCrossService(dryRun, answered, done) ==
  IF dryRun
  THEN [done EXCEPT !.results =
                       Append(@, Result("cross-service", TRUE, DryRunId(CrossServicePageId), ""))]
  ELSE [done EXCEPT !.confluenceCalls =
                       Append(@, [op |-> "createOrUpdate", id |-> CreatedId(CrossServicePageId),
                                  page |-> CrossServicePageId]),
                    !.results =
                       Append(@, IF answered
                                 THEN Result("cross-service", TRUE,
                                             CreatedId(CrossServicePageId), "")
                                 ELSE Result("cross-service", FALSE, NoId, "confluence"))]

\* the documentation of processWithMultiFileContext for the service contexts
PublishContexts(options, dryRun, answered, time, serviceContexts, done) ==
  IF options.generateCrossServiceDocumentation /\ Len(serviceContexts) > 1
  THEN PublishCrossService(dryRun, answered,
         IF options.generateServiceDocumentation
         THEN PublishServices(dryRun, answered, time, serviceContexts, done)
         ELSE done)
  ELSE IF options.generateServiceDocumentation
       THEN PublishServices(dryRun, answered, time, serviceContexts, done)
       ELSE done

\* processWithMultiFileContext returns the results of its pages
Published(options, done) ==
  /\ mappings' = done.mappings
  /\ mappingWrites' = done.mappingWrites
  /\ confluenceCalls' = done.confluenceCalls
  /\ statistics' = done.statistics
  /\ task' = NoTask
  /\ running' = <<>>
  /\ currentlyProcessing' = currentlyProcessing
  /\ returned' = Returned("processWithMultiFileContext", options, done.results, TRUE)

\* processWithMultiFileContext(options) is called; the analyzer returns
\* serviceContexts and Confluence answers or not
ProcessWithMultiFileContext(options, serviceContexts, answered) ==
  /\ Call
  /\ IF ~options.enableMultiFileContext
     THEN ProcessFilesBegins("processWithMultiFileContext", options,
                             SupportedFiles[watchedDirectories])
          /\ NothingSent
          /\ UNCHANGED <<mappings, statistics>>
     ELSE IF Scan[watchedDirectories] = <<>>
     THEN Returns("processWithMultiFileContext", options, TRUE)
          /\ NothingSent
          /\ UNCHANGED <<mappings, statistics>>
     ELSE IF serviceContexts = <<>>
     THEN ProcessFilesBegins("processWithMultiFileContext", options,
                             SupportedFiles[watchedDirectories])
          /\ NothingSent
          /\ UNCHANGED <<mappings, statistics>>
     ELSE Published(options,
                    PublishContexts(options, config.dryRun, answered, now + 1, serviceContexts,
                                    NothingPublished(mappings, 0, <<>>, statistics)))
  /\ UNCHANGED <<queued, config, mtime, isRunning, watchedDirectories, elsewhere>>

\* generateArchitectureOverview() is called; some file of the scan parses or none
GenerateArchitectureOverview(parsed) ==
  /\ Call
  /\ confluenceCalls' =
       IF parsed /\ Scan[watchedDirectories] # <<>> /\ ~config.dryRun
       THEN <<[op |-> "createOrUpdate", id |-> CreatedId(OverviewPageId),
               page |-> OverviewPageId]>>
       ELSE <<>>
  /\ mappingWrites' = 0
  /\ Returns("generateArchitectureOverview", <<>>, TRUE)
  /\ UNCHANGED <<queued, config, mtime, mappings, statistics, isRunning, watchedDirectories,
                 elsewhere>>

\* a source file is modified
ModifyFile(filePath) ==
  /\ task = NoTask
  /\ filePath \in Tree
  /\ mtime[filePath] < now
  /\ mtime' = [mtime EXCEPT ![filePath] = now]
  /\ UNCHANGED <<queued, config, now, mappings, mappingWrites, confluenceCalls, statistics,
                 currentlyProcessing, isRunning, watchedDirectories, task, running, returned,
                 operations, elsewhere>>

\* PageMappingService.removeMapping(filePath): the mapping under
\* path.resolve(filePath) is deleted, the mapping file is not written
RemoveMapping(map, filePath) == SelectSeq(map, LAMBDA e : e.key # MappingKey(filePath))

\* the paths of a list other than one
Without(paths, filePath) == SelectSeq(paths, LAMBDA q : q # filePath)

\* the file watcher reports a change while the pipeline is running, between
\* operations: a new or changed file is queued and a timer set unless the file
\* is queued already, a deleted file leaves the queue and loses its mapping
HandleFileChange(type, filePath) ==
  /\ task = NoTask
  /\ isRunning
  /\ config.watchMode
  /\ operations < MaxOperations
  /\ operations' = operations + 1
  /\ IF type \in {"add", "change"}
     THEN LET included == \E i \in 1..Len(processingQueue) : processingQueue[i] = filePath
          IN  /\ processingQueue' = IF included THEN processingQueue
                                    ELSE Append(processingQueue, filePath)
              /\ timers' = IF included THEN timers ELSE timers + 1
              /\ mappings' = mappings
     ELSE /\ processingQueue' = Without(processingQueue, filePath)
          /\ timers' = timers
          /\ mappings' = RemoveMapping(mappings, filePath)
  /\ UNCHANGED <<config, now, mtime, mappingWrites, confluenceCalls, statistics,
                 currentlyProcessing, isRunning, watchedDirectories, task, running, returned,
                 elsewhere>>

\* { skipUnchanged: true }
QueueOptions == FileOption(TRUE, FALSE, 0)

\* a timer of processQueue fires while no operation is in progress: the queue
\* is emptied and, unless it was empty, given to processFiles
ProcessQueue ==
  /\ task = NoTask
  /\ timers > 0
  /\ timers' = timers - 1
  /\ processingQueue' = <<>>
  /\ now' = now + 1
  /\ IF processingQueue = <<>>
     THEN UNCHANGED <<task, running, currentlyProcessing, returned, confluenceCalls,
                      mappingWrites>>
     ELSE NothingSent /\ ProcessFilesBegins("processQueue", QueueOptions, processingQueue)
  /\ UNCHANGED <<config, mtime, mappings, statistics, isRunning, watchedDirectories,
                 operations, elsewhere>>

PipelineNext ==
  \/ \E f \in {"src/user.go", MissingFile}, o \in FileOptions : ProcessFile(f, o)
  \/ \E ps \in PathLists, o \in BatchOptions : ProcessFiles(ps, o)
  \/ \E o \in FileOptions : ProcessAllFiles(o)
  \/ \E o \in StartOptions : Start(o)
  \/ Stop
  \/ \E o \in MultiFileOptions, cs \in ContextLists, answered \in BOOLEAN :
       ProcessWithMultiFileContext(o, cs, answered)
  \/ \E parsed \in BOOLEAN : GenerateArchitectureOverview(parsed)
  \/ \E k \in 1..Len(running) : FileInfoReturns(k)
  \/ \E k \in 1..Len(running), parsed \in BOOLEAN : ParseReturns(k, parsed)
  \/ \E k \in 1..Len(running), generated \in BOOLEAN : TransformReturns(k, generated)
  \/ \E k \in 1..Len(running), answered \in BOOLEAN : ConfluenceReturns(k, answered)
  \/ \E k \in 1..Len(running), saved \in BOOLEAN : SaveReturns(k, saved)
  \/ BatchSettles
  \/ ModifyFile("src/user.go")
  \/ \E type \in {"add", "change", "unlink"}, f \in {"src/user.go", "src/Order.java"} :
       HandleFileChange(type, f)
  \/ ProcessQueue

\* the documentation pipeline on its own
PipelineSpec == PipelineInit /\ [][PipelineNext]_vars

\* ---------------------------------------------------------------- the repository cloner
\* Model of RepositoryCloner (automation/repository-cloner.ts): cloneRepository,
\* cloneAndProcessRepository and cleanupDirectory, for calls that overlap.

\* the directories clones are made in: config.tempDir, or the name
\* createTempDirectory makes up
TempDirs == {"/tmp/doc-pipeline-1", "/tmp/doc-pipeline-2"}

CloneOperations == {"cloneRepository", "cloneAndProcessRepository"}

\* a call of the cloner: the await it stands at, whether its processor threw,
\* and what cleanupDirectory left behind when the call settled
Clone(api, tempDir) ==
  [api |-> api, tempDir |-> tempDir, stage |-> "clone", threw |-> FALSE,
   cleaned |-> FALSE, removeFailed |-> FALSE, onDisk |-> FALSE, tracked |-> FALSE]

\* cleanupDirectory(dirPath) that removes the directory and keeps it tracked
CleanupDirectoryKeepsTracking(dirs, trackedDirs, dirPath, removes) ==
  IF dirPath \in dirs /\ ~removes
  THEN [directories |-> dirs, tempDirectories |-> trackedDirs, removeFailed |-> TRUE]
  ELSE [directories |-> dirs \ {dirPath}, tempDirectories |-> trackedDirs,
        removeFailed |-> FALSE]

\* cleanupDirectory(dirPath): an existing directory is removed, then the path
\* leaves the tracked set; when fs.remove throws, the error is logged and
\* neither happens
CleanupDirectory(dirs, trackedDirs, dirPath, removes) ==
  IF dirPath \in dirs /\ ~removes
  THEN [directories |-> dirs, tempDirectories |-> trackedDirs, removeFailed |-> TRUE]
  ELSE [directories |-> dirs \ {dirPath}, tempDirectories |-> trackedDirs \ {dirPath},
        removeFailed |-> FALSE]

\* the call i settles in the given stage after cleanupDirectory has run
CleanedUp(i, stage, after) ==
  /\ directories' = after.directories
  /\ tempDirectories' = after.tempDirectories
  /\ clones' = [clones EXCEPT ![i].stage = stage, ![i].cleaned = TRUE,
                              ![i].removeFailed = after.removeFailed,
                              ![i].onDisk = clones[i].tempDir \in after.directories,
                              ![i].tracked = clones[i].tempDir \in after.tempDirectories]

\* cloneRepository(config) or cloneAndProcessRepository(config, processor) is
\* called: git.clone starts
CloneRepository(api, tempDir) ==
  /\ Len(clones) < MaxClones
  /\ clones' = Append(clones, Clone(api, tempDir))
  /\ UNCHANGED <<directories, tempDirectories, analyzer, pipeline>>

\* git.clone returns, or throws: into a directory that exists it throws, and a
\* clone that throws may leave its directory behind
GitCloneReturns(i, cloned, left) ==
  /\ clones[i].stage = "clone"
  /\ cloned => clones[i].tempDir \notin directories
  /\ directories' = IF cloned \/ left THEN directories \cup {clones[i].tempDir} ELSE directories
  /\ clones' = [clones EXCEPT ![i].stage = IF cloned THEN "revparse" ELSE "failed"]
  /\ UNCHANGED <<tempDirectories, analyzer, pipeline>>

\* the revparse calls return and the directory is tracked, or one throws
RevparseReturns(i, answered) ==
  /\ clones[i].stage = "revparse"
  /\ tempDirectories' = IF answered THEN tempDirectories \cup {clones[i].tempDir}
                        ELSE tempDirectories
  /\ clones' = [clones EXCEPT ![i].stage =
                  IF ~answered THEN "failed"
                  ELSE IF clones[i].api = "cloneRepository" THEN "resolved" ELSE "processor"]
  /\ UNCHANGED <<directories, analyzer, pipeline>>

\* the catch block of cloneRepository: cleanupDirectory, then the error is rethrown
CloneRepositoryFails(i, removes) ==
  /\ clones[i].stage = "failed"
  /\ CleanedUp(i, "rejected",
               CleanupDirectory(directories, tempDirectories, clones[i].tempDir, removes))
  /\ UNCHANGED <<analyzer, pipeline>>

\* the processor of cloneAndProcessRepository resolves, or throws
ProcessorSettles(i, threw) ==
  /\ clones[i].stage = "processor"
  /\ clones' = [clones EXCEPT ![i].stage = "finally", ![i].threw = threw]
  /\ UNCHANGED <<directories, tempDirectories, analyzer, pipeline>>

\* the finally block of cloneAndProcessRepository: cloneResult.cleanup(), then
\* the call settles as its processor did
CloneAndProcessSettles(i, removes) ==
  /\ clones[i].stage = "finally"
  /\ CleanedUp(i, IF clones[i].threw THEN "rejected" ELSE "resolved",
               CleanupDirectory(directories, tempDirectories, clones[i].tempDir, removes))
  /\ UNCHANGED <<analyzer, pipeline>>

\* the caller of cloneRepository calls the cleanup() of its CloneResult
CallerCleansUp(i, removes) ==
  /\ clones[i].stage = "resolved"
  /\ clones[i].api = "cloneRepository"
  /\ ~clones[i].cleaned
  /\ CleanedUp(i, "resolved",
               CleanupDirectory(directories, tempDirectories, clones[i].tempDir, removes))
  /\ UNCHANGED <<analyzer, pipeline>>

ClonerInit ==
  /\ disk = {}
  /\ unreadable = {}
  /\ listing = "asc"
  /\ fault = NoFault
  /\ Fresh
  /\ NoPipeline
  /\ NewCloner

ClonerNext ==
  \/ \E api \in CloneOperations, dir \in TempDirs : CloneRepository(api, dir)
  \/ \E i \in 1..Len(clones), cloned \in BOOLEAN, left \in BOOLEAN : GitCloneReturns(i, cloned, left)
  \/ \E i \in 1..Len(clones), answered \in BOOLEAN : RevparseReturns(i, answered)
  \/ \E i \in 1..Len(clones), removes \in BOOLEAN : CloneRepositoryFails(i, removes)
  \/ \E i \in 1..Len(clones), threw \in BOOLEAN : ProcessorSettles(i, threw)
  \/ \E i \in 1..Len(clones), removes \in BOOLEAN : CloneAndProcessSettles(i, removes)
  \/ \E i \in 1..Len(clones), removes \in BOOLEAN : CallerCleansUp(i, removes)

\* the repository cloner on its own
ClonerSpec == ClonerInit /\ [][ClonerNext]_vars

\* ---------------------------------------------------------------- properties
BucketFields ==
  {"controllers", "services", "models", "repositories", "configurations", "utilities", "tests"}

\* the places (context, bucket, position) at which file f occurs in the result
Placements(f) ==
  UNION {UNION {{<<k, b, i>> : i \in {j \in 1..Len(contexts[k][b]) :
                                        contexts[k][b][j].filePath = f}}
                  : b \in BucketFields}
           : k \in 1..Len(contexts)}

\* the member files of a context: the files of its buckets
Members(c) == UNION {{c[b][i].filePath : i \in 1..Len(c[b])} : b \in BucketFields}

Discovered == {allFiles[i] : i \in 1..Len(allFiles)}

\* C1: after analyzeDirectory on a fresh ContextAnalyzer every file of the module
\* table occupies exactly one place (one position of one bucket of one returned
\* context), and a discovered file whose parse returned null occupies none.
C1_Partition ==
  (pc = "done" /\ calls = 1) =>
    /\ \A f \in KeySet(codeModules) : Cardinality(Placements(f)) = 1
    /\ \A f \in Discovered \ KeySet(codeModules) : Placements(f) = {}

\* a fresh run that returned a context of two files while a third discovered
\* file could not be parsed
C1_Witness ==
  /\ pc = "done" /\ calls = 1
  /\ \E k \in 1..Len(contexts) : Cardinality(Members(contexts[k])) >= 2
  /\ Discovered \ KeySet(codeModules) # {}

\* C2: each returned context holds exactly the relationships of the collection
\* whose source or target is one of its member files, each as often and in the
\* order in which the collection holds it: an edge from a member of Foo to a
\* member of Bar is in Foo and in Bar, and in no context that has neither file.
C2_RelationshipFilter ==
  pc = "done" =>
    \A k \in 1..Len(contexts) :
      contexts[k].relationships =
        SelectSeq(fileRelationships,
                  LAMBDA r : r.sourceFile \in Members(contexts[k])
                             \/ r.targetFile \in Members(contexts[k]))

\* an edge between member files of two different contexts, and a third context
\* that holds neither file
C2_Witness ==
  /\ pc = "done"
  /\ \E i \in 1..Len(fileRelationships) : \E a, b, c \in 1..Len(contexts) :
       /\ a # b /\ c # a /\ c # b
       /\ fileRelationships[i].sourceFile \in Members(contexts[a])
       /\ fileRelationships[i].targetFile \in Members(contexts[b])
       /\ fileRelationships[i].sourceFile \notin Members(contexts[c])
       /\ fileRelationships[i].targetFile \notin Members(contexts[c])

\* C3: in every reachable state every relationship of the collection has a
\* targetFile that is a key of the module table, import edges included.
C3_TargetsKnown ==
  \A i \in 1..Len(fileRelationships) :
    fileRelationships[i].targetFile \in KeySet(codeModules)

\* the three files of the end-to-end scenario, as analyzeDirectory names them
ScenarioController == PathJoin(directoryPath, <<"user_controller.go">>)
ScenarioService == PathJoin(directoryPath, <<"user_service.go">>)
ScenarioModel == PathJoin(directoryPath, <<"user_model.go">>)

\* a fresh run that discovered and parsed exactly the three scenario files
ScenarioRun ==
  /\ pc = "done" /\ calls = 1
  /\ Discovered = {ScenarioController, ScenarioService, ScenarioModel}
  /\ KeySet(codeModules) = Discovered

InBucket(c, b, f) == \E i \in 1..Len(c[b]) : c[b][i].filePath = f

ScenarioImportEdges ==
  SelectSeq(fileRelationships,
            LAMBDA r : /\ r.sourceFile = ScenarioController
                       /\ r.relationType = "import"
                       /\ r.details = "./user_service")

\* a fresh run that parsed user_controller.go, which imports ./user_service
ImporterRun == pc = "done" /\ calls = 1 /\ ScenarioController \in KeySet(codeModules)

\* C5: with a sibling file user_service.go the import ./user_service yields
\* exactly one import relationship from the importing file to that file.
C5_SiblingFileResolved ==
  (ImporterRun /\ UserServiceGo \in disk) =>
    /\ Len(ScenarioImportEdges) = 1
    /\ ScenarioImportEdges[1].targetFile \in {ScenarioService, UserServiceGo}

\* C5 as amended: the import ./user_service yields exactly one import
\* relationship when user_service is a directory beside the importing file that
\* lists a .go entry, its target being the absolute path of that entry, and none
\* otherwise, whether or not a sibling file user_service.go exists.
C5_DirectoryResolved ==
  ImporterRun =>
    IF UserServiceImplGo \in disk
    THEN /\ Len(ScenarioImportEdges) = 1
         /\ ScenarioImportEdges[1].sourceFile = ScenarioController
         /\ ScenarioImportEdges[1].targetFile = UserServiceImplGo
    ELSE Len(ScenarioImportEdges) = 0

C5_Witness ==
  /\ ImporterRun
  /\ UserServiceImplGo \in disk /\ UserServiceGo \in disk
  /\ Len(ScenarioImportEdges) = 1

\* the base name without its extension
BaseNameOf(p) ==
  LET name == Basename(p)
      ext == Extname(name) IN
  IF ext = "" THEN name ELSE SubSeq(name, 1, Len(name) - Len(ext))

\* pat is a suffix of base in any letter case, after a non-empty prefix
SuffixAfterPrefix(base, pat) ==
  /\ Len(base) - Len(pat) >= 1
  /\ ToLowerCase(SubSeq(base, Len(base) - Len(pat) + 1, Len(base))) = ToLowerCase(pat)

\* the service name the claim assigns to a path
SpecifiedServiceName(p) ==
  LET base == BaseNameOf(p)
      parent == Basename(Dirname(p))
      order == <<"Controller", "Service", "Handler", "Repository", "Manager", "Provider",
                 "Component">>
      matching == {i \in 1..Len(order) : SuffixAfterPrefix(base, order[i])}
  IN IF matching # {}
     THEN LET i == CHOOSE m \in matching : \A n \in matching : m <= n IN
          SubSeq(base, 1, Len(base) - Len(order[i]))
     ELSE IF parent = "." THEN "Root" ELSE parent

\* the examples of the service-name derivation
ServiceNameExamples ==
  /\ ExtractServiceName(Path("UserController.go")) = "User"
  /\ ExtractServiceName(Path("OrderService.java")) = "Order"
  /\ ExtractServiceName(Path("utils/helpers.go")) = "utils"
  /\ ExtractServiceName(Path("main.go")) = "Root"

\* C6: extractServiceName returns the prefix captured by the first pattern, in
\* the order Controller .. Component, that is a case-insensitive suffix of the
\* extension-less base name after a non-empty prefix, else the parent directory
\* name, else "Root" for the current directory; so for the four named examples,
\* for every file of the module table and for every returned context's name.
C6_ServiceName ==
  /\ ServiceNameExamples
  /\ pc \in {"group", "done"} =>
       \A f \in KeySet(codeModules) : ExtractServiceName(f) = SpecifiedServiceName(f)
  /\ pc = "done" =>
       \A k \in 1..Len(contexts) :
         \E f \in KeySet(codeModules) : contexts[k].serviceName = SpecifiedServiceName(f)

\* a run that named one context by a pattern prefix and one "Root"
C6_Witness ==
  /\ pc = "done"
  /\ \E k \in 1..Len(contexts) : contexts[k].serviceName = "Root"
  /\ \E k \in 1..Len(contexts) :
       /\ contexts[k].serviceName = "user_"
       /\ Cardinality(Members(contexts[k])) = 2

\* cat is the category the claim assigns to a path
SpecifiedCategory(p, cat) ==
  LET name == ToLowerCase(Basename(p))
      dir == ToLowerCase(Basename(Dirname(p)))
      groups == 1..Len(FileNameKeywords)
      named == [i \in groups |-> \E w \in FileNameKeywords[i].words : Includes(name, w)]
      Named(i) == named[i]
  IN \/ \E i \in groups : /\ Named(i) /\ \A j \in 1..(i - 1) : ~Named(j)
                          /\ cat = FileNameKeywords[i].category
     \/ /\ \A i \in groups : ~Named(i)
        /\ \E i \in 1..Len(DirectoryNames) : /\ dir \in DirectoryNames[i].words
                                             /\ cat = DirectoryNames[i].category
     \/ /\ \A i \in groups : ~Named(i)
        /\ \A i \in 1..Len(DirectoryNames) : dir \notin DirectoryNames[i].words
        /\ cat = "unknown"

\* the examples of the categorisation
CategoryExamples ==
  /\ \A d \in {".", "models", "controllers", "services", "tests", "Config", "x"} :
       CategorizeFile(<<d, "payment_repository.go">>) = "repository"
  /\ CategorizeFile(Path("controllers/index.go")) = "controller"

\* C7: categorizeFile returns the category of the first file-name keyword group
\* with a keyword in the lower-cased file name, else the category whose
\* directory list holds the lower-cased parent directory name, else "unknown";
\* payment_repository.go is "repository" in every directory and index.go in
\* controllers is "controller".
C7_Category ==
  /\ CategoryExamples
  /\ pc \in {"group", "done"} =>
       \A f \in KeySet(codeModules) : SpecifiedCategory(f, CategorizeFile(f))

\* a run that placed payment_repository.go of directory models in repositories
\* and index.go of directory controllers in controllers
C7_Witness ==
  /\ pc = "done"
  /\ \E k \in 1..Len(contexts) :
       InBucket(contexts[k], "repositories",
                PathJoin(directoryPath, <<"models", "payment_repository.go">>))
  /\ \E k \in 1..Len(contexts) :
       InBucket(contexts[k], "controllers",
                PathJoin(directoryPath, <<"controllers", "index.go">>))

Count(s, e) == Cardinality({i \in 1..Len(s) : s[i] = e})

\* the same elements with the same multiplicities, in any order
SameMultiset(a, b) ==
  Len(a) = Len(b) /\ \A i \in 1..Len(a) : Count(a, a[i]) = Count(b, a[i])

\* C8: a second analyzeDirectory call on the same ContextAnalyzer, for the same
\* directory and with the module table unchanged, leaves the relationship
\* collection with the same multiset of edges as the first call left.
C8_SameEdgesOnRerun ==
  (pc = "done" /\ previous.made /\ previous.directory = directoryPath
     /\ previous.modules = codeModules) =>
    SameMultiset(fileRelationships, previous.relationships)

\* the derived service name of each entry of the module table
NamesOfKeys == [i \in 1..Len(codeModules) |-> SpecifiedServiceName(codeModules[i].key)]

FirstIndex(names, n) ==
  CHOOSE i \in 1..Len(names) : names[i] = n /\ \A j \in 1..(i - 1) : names[j] # n

\* C9: the returned contexts are one per distinct derived service name, each
\* holding all files of the module table that derive its name, ordered by the
\* table position of the first such file; no context is added for ungrouped
\* files.
C9_OneContextPerName ==
  pc = "done" =>
    LET names == NamesOfKeys
        keysNamed == [k \in 1..Len(contexts) |->
                       {codeModules[i].key : i \in {j \in 1..Len(names) :
                                                      names[j] = contexts[k].serviceName}}]
        first == [k \in 1..Len(contexts) |-> FirstIndex(names, contexts[k].serviceName)]
    IN /\ \A i \in 1..Len(names) :
            \E k \in 1..Len(contexts) : contexts[k].serviceName = names[i]
       /\ \A k \in 1..Len(contexts) :
            Members(contexts[k]) = keysNamed[k] /\ keysNamed[k] # {}
       /\ \A k, l \in 1..Len(contexts) :
            k < l => /\ contexts[k].serviceName # contexts[l].serviceName
                     /\ first[k] < first[l]

\* two contexts, one of them merging files of two directories
C9_Witness ==
  /\ pc = "done"
  /\ Len(contexts) >= 2
  /\ \E k \in 1..Len(contexts) : \E f, g \in Members(contexts[k]) : Dirname(f) # Dirname(g)

\* the edges the claim expects of a query for service n, in collection order
RECURSIVE SpecifiedEdges(_, _)
SpecifiedEdges(rels, n) ==
  IF Len(rels) = 0 THEN <<>>
  ELSE LET r == rels[Len(rels)]
           before == SpecifiedEdges(SubSeq(rels, 1, Len(rels) - 1), n) IN
       IF SpecifiedServiceName(r.sourceFile) = n \/ SpecifiedServiceName(r.targetFile) = n
       THEN Append(before, [from |-> Basename(r.sourceFile), to |-> Basename(r.targetFile),
                            type |-> r.relationType])
       ELSE before

\* C10: a dependency-graph query returns, in collection order and with
\* multiplicity, one edge of base names and kind for each relationship whose
\* source or target derives the queried name; nodes are the base names of those
\* edges' endpoints, each once.
C10_DependencyGraph ==
  graph.asked =>
    /\ graph.edges = SpecifiedEdges(fileRelationships, graph.service)
    /\ \A i, j \in 1..Len(graph.nodes) : i # j => graph.nodes[i] # graph.nodes[j]
    /\ {graph.nodes[i] : i \in 1..Len(graph.nodes)}
         = {graph.edges[i].from : i \in 1..Len(graph.edges)}
           \cup {graph.edges[i].to : i \in 1..Len(graph.edges)}

\* a query answered with several edges, one of them taken for its target only,
\* and with a node shared by two edges
C10_Witness ==
  /\ graph.asked
  /\ Len(graph.edges) >= 2
  /\ Len(graph.nodes) < 2 * Len(graph.edges)
  /\ \E i \in 1..Len(fileRelationships) :
       /\ SpecifiedServiceName(fileRelationships[i].sourceFile) # graph.service
       /\ SpecifiedServiceName(fileRelationships[i].targetFile) = graph.service

\* the items of a field of the modules of a list, module after module
RECURSIVE FactsOf(_, _)
FactsOf(modules, field) ==
  IF Len(modules) = 0 THEN <<>>
  ELSE Head(modules)[field] \o FactsOf(Tail(modules), field)

\* C11: in every returned context apiEndpoints is the concatenation of the
\* endpoints of the modules of controllers, businessLogic that of the classes of
\* the modules of services, dataModels that of the classes of the modules of
\* models; and a file whose category is "unknown" is in utilities.
C11_FactLists ==
  pc = "done" =>
    \A k \in 1..Len(contexts) :
      /\ contexts[k].apiEndpoints = FactsOf(contexts[k].controllers, "endpoints")
      /\ contexts[k].businessLogic = FactsOf(contexts[k].services, "classes")
      /\ contexts[k].dataModels = FactsOf(contexts[k].models, "classes")
      /\ \A f \in Members(contexts[k]) :
           SpecifiedCategory(f, "unknown") => InBucket(contexts[k], "utilities", f)

\* a context with a service file whose endpoints are not listed and a file of
\* unknown category, placed in utilities, whose classes are not listed
C11_Witness ==
  /\ pc = "done"
  /\ \E k \in 1..Len(contexts) :
       /\ FactsOf(contexts[k].services, "endpoints") # <<>>
       /\ contexts[k].apiEndpoints = <<>>
       /\ contexts[k].businessLogic # <<>>
       /\ contexts[k].dataModels = <<>>
       /\ \E i \in 1..Len(contexts[k].utilities) :
            /\ contexts[k].utilities[i].classes # <<>>
            /\ SpecifiedCategory(contexts[k].utilities[i].filePath, "unknown")

\* the discovered files for which the parser returned null
Unparsed == {f \in Discovered : Abs(f) \in unreadable}

\* C12: when the parser returns null for a discovered file, analyzeDirectory
\* still returns the contexts of all other discovered files, the file is not in
\* the module table, and the call does not reject.
C12_ParseFailureSkipped ==
  (calls = 1 /\ pc # "parse") =>
    /\ pc # "failed"
    /\ KeySet(codeModules) = Discovered \ Unparsed
    /\ pc = "done" => UNION {Members(contexts[k]) : k \in 1..Len(contexts)}
                        = Discovered \ Unparsed

\* a run that returned contexts for other files after a file failed to parse
C12_Witness ==
  /\ calls = 1 /\ pc = "done"
  /\ Unparsed # {}
  /\ Len(contexts) >= 1
  /\ \A k \in 1..Len(contexts) : Members(contexts[k]) \cap Unparsed = {}

\* the root directory of the last call does not exist or cannot be listed
RootFailed == ReaddirThrows(disk, fault, directoryPath)

\* C13: analyzeDirectory has two outcomes: it resolves with the context
\* sequence, or, the root directory being missing or unreadable, it rejects with
\* that error and returns no contexts.
C13_TwoOutcomes ==
  /\ pc = "done" => error = NoError
  /\ pc = "failed" => /\ RootFailed
                      /\ error = Err("readdir", directoryPath, "discovery")
                      /\ contexts = <<>>

\* C14: failing to list or stat an entry below the root, or to read one file,
\* never makes analyzeDirectory reject.
C14_FailureBelowRootSkipped ==
  (/\ calls >= 1
   /\ fault.op \in {"stat", "readdir", "readFile"}
   /\ fault.path # Abs(directoryPath)
   /\ IsDirectory(disk, directoryPath)) => pc # "failed"

\* C15: a failure while extracting the relationships of one file does not make
\* analyzeDirectory reject; extraction goes on with the remaining files.
C15_ExtractionFailureIsNoEdge ==
  pc = "failed" => error.during # "relationships"

\* the edges appended to the collection since the last call began
NewEdges ==
  SubSeq(fileRelationships, Len(previous.relationships) + 1, Len(fileRelationships))

\* C16: the contexts a call returns hold only files discovered by that call and
\* only edges created during that call, also on a ContextAnalyzer that ran
\* analyzeDirectory before.
C16_OneRunLifetime ==
  pc = "done" =>
    \A k \in 1..Len(contexts) :
      /\ Members(contexts[k]) \subseteq Discovered
      /\ contexts[k].relationships =
           SelectSeq(NewEdges, LAMBDA r : \/ r.sourceFile \in Members(contexts[k])
                                          \/ r.targetFile \in Members(contexts[k]))

\* ---------------------------------------------------------------- properties of the pipeline
\* the page ids of the documents made for a result's path: one per source
\* file, five per service, one across services
PageIdsOf(filePath) ==
  CASE filePath = "src/user.go" -> {"user"}
    [] filePath = "src/Order.java" -> {"order"}
    [] filePath = "cross-service" -> {"cross-service-architecture"}
    [] OTHER -> {"service-" \o n \o "-" \o p :
                   n \in {"user", "order"},
                   p \in {"overview", "api", "architecture", "business-logic", "data-models"}}

\* the results an operation has produced so far and the one it returned
ResultsSoFar ==
  {running[k].result : k \in {j \in 1..Len(running) : running[j].stage = "settled"}}
  \cup {task.results[i] : i \in 1..Len(task.results)}
  \cup {returned.results[i] : i \in 1..Len(returned.results)}

\* C17: while dry-run is enabled no operation of the pipeline sends a create or
\* update request to Confluence or writes the page-mapping file, and every
\* successful result that carries a page carries the id "dry-run-<page id>" of
\* a page made for its path (a file skipped as unchanged has no page and no id)
C17_DryRunSendsNothing ==
  config.dryRun =>
    /\ confluenceCalls = <<>>
    /\ mappingWrites = 0
    /\ \A r \in ResultsSoFar :
         (r.success /\ r.confluencePageId # NoId) =>
           \E id \in PageIdsOf(r.filePath) : r.confluencePageId = "dry-run-" \o id

\* a dry run of processFiles has returned a page result for each of two files
C17_Witness ==
  /\ config.dryRun
  /\ returned.op = "processFiles"
  /\ Len(returned.results) = 2
  /\ returned.results[1] = Result("src/user.go", TRUE, "dry-run-user", "")
  /\ returned.results[2] = Result("src/Order.java", TRUE, "dry-run-order", "")
  /\ statistics.successfulProcesses = 2

\* a dry run of processWithMultiFileContext has returned the pages of a service
\* and the cross-service page
C17_WitnessOfServices ==
  /\ config.dryRun
  /\ returned.op = "processWithMultiFileContext"
  /\ \E i \in 1..Len(returned.results) :
       returned.results[i] = Result("src", TRUE, "dry-run-service-user-overview", "")
  /\ \E i \in 1..Len(returned.results) :
       returned.results[i] =
         Result("cross-service", TRUE, "dry-run-cross-service-architecture", "")

\* the files of the source directories that have a supported extension and
\* match no exclude pattern, in traversal order
AttemptedByProcessAll ==
  SelectSeq(SourceFiles, LAMBDA f : f \in Tree /\ f \in {"src/Order.java", "src/user.go"})

\* C18: start({processAllFiles: true}) on a pipeline that is not running
\* returns one result for every supported, non-excluded file of the source
\* directories, whether or not watch mode is enabled
C18_ProcessAllAttemptsEveryFile ==
  (returned.op = "start" /\ returned.ran /\ returned.options.processAllFiles) =>
    [i \in 1..Len(returned.results) |-> returned.results[i].filePath] = AttemptedByProcessAll

\* the call is one the skip test lets return early: skipUnchanged without
\* forceUpdate, for a file with a mapping that was not modified after the
\* mapping's lastUpdated
UnchangedFor(inv) ==
  /\ inv.skipUnchanged
  /\ ~inv.forceUpdate
  /\ GetMapping(mappings, inv.filePath) # NoMapping
  /\ inv.filePath \in Tree
  /\ mtime[inv.filePath] <= GetMapping(mappings, inv.filePath).lastUpdated

\* the call has gone through every step of processFile
ProcessedInFull(inv) ==
  /\ "parse" \in inv.did
  /\ inv.result.success =>
       /\ {"parse", "transform"} \subseteq inv.did
       /\ inv.result.confluencePageId # NoId
       /\ ~config.dryRun => {"confluence", "save"} \subseteq inv.did

\* where the calls of the batch in progress stand, as the skip test demands
SkipTestObeyed ==
  \A k \in {j \in 1..Len(running) : task # NoTask} :
    /\ running[k].stage = "fileInfo" =>
         /\ running[k].skipUnchanged
         /\ ~running[k].forceUpdate
         /\ GetMapping(mappings, running[k].filePath) # NoMapping
    /\ (running[k].stage = "settled"
        /\ running[k].result.error # "File is already being processed") =>
         \/ /\ running[k].did = {}
            /\ running[k].result = Result(running[k].filePath, TRUE, NoId, "")
            /\ UnchangedFor(running[k])
         \/ ProcessedInFull(running[k])

\* the step a call takes from the skip test: an unchanged file returns success
\* and nothing else changes, any other file goes on to the parser
SkipStep(k) ==
  IF UnchangedFor(running[k])
  THEN /\ running'[k].stage = "settled"
       /\ running'[k].result = Result(running[k].filePath, TRUE, NoId, "")
       /\ running'[k].did = {}
       /\ UNCHANGED <<statistics, mappings, mappingWrites, confluenceCalls>>
  ELSE running'[k].stage = "parse"

\* C19: with skipUnchanged set and forceUpdate unset, a processFile call that
\* passed the already-processing check, for a file that has a mapping and was
\* not modified after the mapping's lastUpdated, returns success without
\* parsing, generating or calling Confluence and leaves statistics and mappings
\* unchanged; a call for a file without a mapping, for a file modified later,
\* or with forceUpdate goes through the parser and, to succeed, every step
C19_OnlyModifiedFilesProcessed ==
  [][/\ SkipTestObeyed'
     /\ \A k \in 1..Len(running') :
          (/\ task' # NoTask
           /\ running'[k].stage = "parse"
           /\ ~(task' = task /\ running[k].stage = "parse"))
            => ~UnchangedFor(running'[k])
     /\ \A k \in 1..Len(running) :
          (task' = task /\ running[k].stage = "fileInfo" /\ running'[k] # running[k])
            => SkipStep(k)]_vars

\* one batch of processFiles with skipUnchanged: the file with an up-to-date
\* mapping was skipped, the file without a mapping was uploaded and saved
C19_Witness ==
  /\ Len(running) = 2
  /\ running[1].stage = "settled"
  /\ running[1].skipUnchanged /\ ~running[1].forceUpdate
  /\ running[1].result = Result("src/user.go", TRUE, NoId, "")
  /\ running[1].did = {}
  /\ mtime["src/user.go"] = GetMapping(mappings, "src/user.go").lastUpdated
  /\ running[2].stage = "settled"
  /\ running[2].result = Result("src/Order.java", TRUE, "confluence-order", "")
  /\ running[2].did = {"parse", "transform", "confluence", "save"}
  /\ statistics.totalFilesProcessed = 1

\* ---------------------------------------------------------------- properties of the cloner
\* the calls the cleanup is promised for: cloneAndProcessRepository once it
\* has settled, and any call whose cloneRepository failed
SettledClones ==
  {i \in 1..Len(clones) :
     \/ clones[i].stage = "rejected"
     \/ clones[i].stage = "resolved" /\ clones[i].api = "cloneAndProcessRepository"}

\* C20 as stated: when cloneAndProcessRepository settles, and when
\* cloneRepository fails, the clone's directory has been removed and is not in
\* the tracked set
C20_AlwaysCleanedUp ==
  \A i \in SettledClones : ~clones[i].onDisk /\ ~clones[i].tracked

\* C20: when cloneAndProcessRepository settles, and when cloneRepository
\* fails, cleanupDirectory has run for the clone's directory; unless fs.remove
\* threw, the directory has been removed and is not in the tracked set; when
\* fs.remove threw, the directory is left on disk
C20_CleanedUpUnlessRemoveFails ==
  \A i \in SettledClones :
    /\ clones[i].cleaned
    /\ IF clones[i].removeFailed
       THEN clones[i].onDisk
       ELSE ~clones[i].onDisk /\ ~clones[i].tracked

\* a cloneAndProcessRepository whose processor threw has settled with its
\* directory removed and untracked, and one whose clone failed likewise
C20_Witness ==
  \E i, j \in SettledClones :
    /\ clones[i].api = "cloneAndProcessRepository"
    /\ clones[i].threw
    /\ ~clones[i].removeFailed /\ ~clones[i].onDisk /\ ~clones[i].tracked
    /\ clones[j].stage = "rejected"
    /\ ~clones[j].threw
    /\ ~clones[j].removeFailed /\ ~clones[j].onDisk /\ ~clones[j].tracked

\* ---------------------------------------------------------------- properties of extraction
\* C21: no relationship of the collection has a null (or empty) targetFile, and
\* the relationships a step appends are appended while a file F of the module
\* table is being scanned and have sourceFile = F
C21_EdgesOfScannedFile ==
  [][/\ \A i \in 1..Len(fileRelationships') : fileRelationships'[i].targetFile # Null
     /\ Len(fileRelationships') > Len(fileRelationships) =>
          /\ pc = "relate"
          /\ cursor <= Len(codeModules)
          /\ SubSeq(fileRelationships', 1, Len(fileRelationships)) = fileRelationships
          /\ \A i \in (Len(fileRelationships) + 1)..Len(fileRelationships') :
               fileRelationships'[i].sourceFile = codeModules[cursor].key]_vars

\* main.go has been scanned: of its four imports the two that resolved are
\* edges from main.go, "fmt" and the import of a directory without a Go file
\* left nothing
C21_Witness ==
  /\ calls = 1 /\ pc = "done"
  /\ directoryPath = Path(".")
  /\ Path("main.go") \in KeySet(codeModules)
  /\ Len(FileContent(MainGo).imports) = 4
  /\ Len(SelectSeq(fileRelationships, LAMBDA r : r.sourceFile = Path("main.go"))) = 2
  /\ \E i \in 1..Len(fileRelationships) :
       /\ fileRelationships[i].details = "./utils"
       /\ fileRelationships[i].targetFile = HelpersGo
  /\ IsDirectory(disk, Path("/w/build")) \/ IsDirectory(disk, Path("/w/user_service"))

\* the relation types made by symbol resolution
SymbolKinds == {"extends", "implements", "references"}

\* the name a symbol relationship refers to, read from its details: the type of
\* "@Autowired <type> <field>", else the last word
ReferencedName(details) ==
  IF StartsWith(details, "@Autowired ")
  THEN LET rest == SubSeq(details, 12, Len(details)) IN
       SubSeq(rest, 1, IndexOf(rest, " ") - 1)
  ELSE SubSeq(details, LastIndexOf(details, " ") + 1, Len(details))

\* the positions of the module table whose file declares a class of that very name
Declarers(map, name) ==
  {i \in 1..Len(map) : \E c \in 1..Len(map[i].value.classes) : map[i].value.classes[c] = name}

\* the relationship names a class that a file declares and points at the
\* first such file of the module table
ResolvedToFirstDeclarer(map, rel) ==
  LET found == Declarers(map, ReferencedName(rel.details)) IN
  /\ found # {}
  /\ \E i \in found : /\ rel.targetFile = map[i].key
                      /\ \A j \in found : i <= j

\* C22: every extends, implements or references relationship appended points at
\* the first file, in insertion order of the module table, that declares a
\* class named exactly (case-sensitively) as referenced, whichever file holds
\* the reference; a name no file declares gives no relationship
C22_FirstExactDeclarer ==
  [][\A i \in (Len(fileRelationships) + 1)..Len(fileRelationships') :
       fileRelationships'[i].relationType \in SymbolKinds =>
         ResolvedToFirstDeclarer(codeModules, fileRelationships'[i])]_vars

\* "Base" is declared by two files and the first of the table was taken, by a
\* reference in another file and by one in that file itself; "Order" was
\* resolved past an earlier file that declares "order"; "Runnable", which no
\* file declares, left no relationship
C22_Witness ==
  /\ calls = 1 /\ pc = "done"
  /\ Cardinality(Declarers(codeModules, "Base")) = 2
  /\ \E i, k \in 1..Len(fileRelationships) :
       /\ fileRelationships[i].details = "OrderService extends Base"
       /\ fileRelationships[i].sourceFile # fileRelationships[i].targetFile
       /\ ResolvedToFirstDeclarer(codeModules, fileRelationships[i])
       /\ fileRelationships[k].details = "UserController : Base"
       /\ fileRelationships[k].targetFile = fileRelationships[i].targetFile
  /\ \E i \in 1..Len(fileRelationships) :
       /\ fileRelationships[i].details = "OrderService implements Order"
       /\ \E a \in Declarers(codeModules, "order"), b \in Declarers(codeModules, "Order") :
            a < b /\ fileRelationships[i].targetFile = codeModules[b].key
  /\ \A i \in 1..Len(fileRelationships) :
       fileRelationships[i].details # "OrderService implements Runnable"

\* the symbol references of a file, as the relationship analysis of its language
\* reads them: the details of the relationship each would make and the name it
\* refers to
SymbolReferencesOf(filePath) ==
  LET content == FileContent(Abs(filePath))
      decls == {content.decls[i] : i \in 1..Len(content.decls)} IN
  CASE LanguageOf(filePath) = "java" ->
         {[details |-> d.name \o " extends " \o d.extends, name |-> d.extends] :
            d \in {x \in decls : x.extends # ""}}
         \cup UNION {{[details |-> d.name \o " implements " \o d.implements[i],
                       name |-> d.implements[i]] : i \in 1..Len(d.implements)} : d \in decls}
         \cup {[details |-> "@Autowired " \o content.autowired[i].type \o " "
                              \o content.autowired[i].field,
                 name |-> content.autowired[i].type] :
                  i \in {j \in 1..Len(content.autowired) :
                           \E k \in 1..Len(content.annotations) :
                             content.annotations[k] \in InjectionAnnotations}}
    [] LanguageOf(filePath) = "csharp" ->
         UNION {{[details |-> d.name \o " : " \o d.implements[i], name |-> d.implements[i]] :
                   i \in 1..Len(d.implements)} : d \in decls}
         \cup {[details |-> "Dependency injection: " \o content.diFields[i],
                 name |-> content.diFields[i]] : i \in 1..Len(content.diFields)}
    [] OTHER -> {}

\* every symbol reference of every file of the table whose name some file of
\* the table declares, before or after it, has its relationship, to the first
\* declarer
AllReferencesResolved(map, rels) ==
  \A i \in 1..Len(map) : \A ref \in SymbolReferencesOf(map[i].key) :
    Declarers(map, ref.name) # {} =>
      \E k \in 1..Len(rels) : /\ rels[k].sourceFile = map[i].key
                               /\ rels[k].details = ref.details
                               /\ ResolvedToFirstDeclarer(map, rels[k])

\* C23: the phases of analyzeDirectory follow one another: relationships are
\* appended only when every discovered file that parses is in the module table,
\* which no longer changes; contexts are assembled only when the extraction has
\* gone through every file of the table, and the collection no longer changes;
\* so when extraction ends every symbol reference to a declared name has its
\* relationship, whether the declaring file comes before or after the
\* referencing file in the table
C23_PhasesInSequence ==
  [][/\ Len(fileRelationships') > Len(fileRelationships) =>
          /\ pc = "relate"
          /\ codeModules' = codeModules
          /\ (Discovered \ Unparsed) \subseteq KeySet(codeModules)
     /\ (contexts' # contexts /\ contexts' # <<>>) =>
          /\ pc = "group"
          /\ cursor > Len(codeModules)
          /\ fileRelationships' = fileRelationships
          /\ codeModules' = codeModules
     /\ (pc = "relate" /\ pc' = "group") =>
          AllReferencesResolved(codeModules', fileRelationships')]_vars

\* a run ended in which OrderService.java, second of three files in the table,
\* refers to "Base", declared by the file before it, and to "Order", declared
\* by the file after it, and both relationships were made
C23_Witness ==
  /\ calls = 1 /\ pc = "done"
  /\ Len(codeModules) = 3
  /\ Abs(codeModules[2].key) = OrderServiceJava
  /\ Declarers(codeModules, "Order") = {3}
  /\ 1 \in Declarers(codeModules, "Base")
  /\ \E i, k \in 1..Len(fileRelationships) :
       /\ fileRelationships[i].sourceFile = codeModules[2].key
       /\ fileRelationships[i].relationType = "implements"
       /\ fileRelationships[i].targetFile = codeModules[3].key
       /\ fileRelationships[k].sourceFile = codeModules[2].key
       /\ fileRelationships[k].relationType = "extends"
       /\ fileRelationships[k].targetFile = codeModules[1].key
  /\ Len(contexts) > 0

\* C24: a query (getServiceDependencyGraph, getFileRelationships,
\* getCrossReferences) and the assembly of the contexts leave the module table
\* and the relationship collection as they are; on one analyzer the collection
\* changes only during relationship extraction and only by appending: what it
\* held stays in place unmodified
C24_QueriesChangeNothing ==
  [][/\ graph'.op # "none" =>
          /\ codeModules' = codeModules /\ fileRelationships' = fileRelationships
          /\ graph'.op = "getFileRelationships" => graph'.list = fileRelationships
          /\ graph'.op = "getCrossReferences" => graph'.list = <<>>
     /\ (contexts' # contexts /\ contexts' # <<>>) =>
          codeModules' = codeModules /\ fileRelationships' = fileRelationships
     /\ (fileRelationships' # fileRelationships /\ calls' > 0) =>
          /\ pc = "relate"
          /\ Len(fileRelationships') > Len(fileRelationships)
          /\ SubSeq(fileRelationships', 1, Len(fileRelationships)) = fileRelationships]_vars

\* getFileRelationships answered after a second analysis: the collection it
\* returns still begins with the relationships of the first analysis, and a
\* context holding some of them has been assembled
C24_Witness ==
  /\ calls = 2 /\ pc = "done"
  /\ graph.op = "getFileRelationships"
  /\ graph.list = fileRelationships
  /\ previous.relationships # <<>>
  /\ Len(fileRelationships) > Len(previous.relationships)
  /\ SubSeq(fileRelationships, 1, Len(previous.relationships)) = previous.relationships
  /\ \E k \in 1..Len(contexts) : contexts[k].relationships # <<>>

\* the @Autowired fields of a Java file of the table whose type some file declares
ResolvableAutowired(map, filePath) ==
  LET content == FileContent(Abs(filePath)) IN
  IF LanguageOf(filePath) # "java" THEN {}
  ELSE {content.autowired[i] :
          i \in {j \in 1..Len(content.autowired) :
                   Declarers(map, content.autowired[j].type) # {}}}

\* C29: after analyzeDirectory on a fresh analyzer, every @Autowired field of
\* a Java file whose type resolves has exactly one "references" relationship
\* in the collection, however many dependency-injection annotations the file has
C29_OneEdgePerAutowiredField ==
  (calls = 1 /\ pc = "done") =>
    \A i \in 1..Len(codeModules) :
      \A a \in ResolvableAutowired(codeModules, codeModules[i].key) :
        Len(SelectSeq(fileRelationships,
                      LAMBDA r : /\ r.sourceFile = codeModules[i].key
                                 /\ r.relationType = "references"
                                 /\ r.details = "@Autowired " \o a.type \o " " \o a.field)) = 1

\* the edges a list of relationships corresponds to: base names and kind, in order
EdgesOf(rels) ==
  [i \in 1..Len(rels) |-> [from |-> Basename(rels[i].sourceFile),
                           to |-> Basename(rels[i].targetFile),
                           type |-> rels[i].relationType]]

\* C30: after analyzeDirectory on a fresh analyzer, the edges that
\* getServiceDependencyGraph(X) answers for the name X of a returned context
\* are, one for one and in order, the relationships of that context
C30_GraphMatchesContext ==
  (calls = 1 /\ pc = "done" /\ graph.asked) =>
    \A k \in 1..Len(contexts) :
      contexts[k].serviceName = graph.service =>
        graph.edges = EdgesOf(contexts[k].relationships)

\* ---------------------------------------------------------------- properties of batching
\* the batch size the caller of processFiles asked for
SizeAskedFor(options) == IF options.batchSize > 0 THEN options.batchSize ELSE 5

\* the file paths of a list of calls or of results, in order
PathsOf(list) == [i \in 1..Len(list) |-> list[i].filePath]

\* the calls of the batch that have not returned
InProgress == {k \in 1..Len(running) : running[k].stage # "settled"}

\* the batch in progress is the next batchSize paths after the batches that
\* have settled, whose results are held in the order of the paths
BatchInOrder ==
  task # NoTask =>
    LET size == SizeAskedFor(task.options)
        first == task.next - size
        last == Min(task.next - 1, Len(task.paths))
    IN  /\ first >= 1 /\ first <= Len(task.paths)
        /\ (first - 1) % size = 0
        /\ Len(running) <= size
        /\ Cardinality(InProgress) <= size
        /\ PathsOf(running) = SubSeq(task.paths, first, last)
        /\ PathsOf(task.results) = SubSeq(task.paths, 1, first - 1)

\* C25: processFiles works through its paths in consecutive batches of
\* batchSize (default 5): the calls of a batch begin together, the next batch
\* begins only when every call of the batch before has returned, so at most
\* batchSize calls are in progress, and the list returned holds one result
\* for each path, in the order of the paths
C25_ConsecutiveBatches ==
  [][/\ BatchInOrder'
     /\ (task' # NoTask /\ (task = NoTask \/ task'.next # task.next)) =>
          /\ InProgress = {}
          /\ \A k \in 1..Len(running') : running'[k].did = {}
          /\ task = NoTask => task'.next = SizeAskedFor(task'.options) + 1
          /\ task # NoTask =>
               /\ task'.next = task.next + SizeAskedFor(task.options)
               /\ task'.paths = task.paths
     /\ (task # NoTask /\ task' = NoTask) =>
          /\ InProgress = {}
          /\ returned'.ran
          /\ PathsOf(returned'.results) = task.paths
          /\ \A i \in 1..Len(task.results) : returned'.results[i] = task.results[i]]_vars

\* processFiles of three paths in batches of two is in its second batch: two
\* results are held and the third path's call is in progress
C25_Witness ==
  /\ task.op = "processFiles"
  /\ task.options.batchSize = 2
  /\ Len(task.paths) = 3
  /\ Len(task.results) = 2
  /\ Len(running) = 1
  /\ InProgress = {1}

\* C26: while a processFile call for a path is in progress the path is in
\* currentlyProcessing and no other call for that path is in progress
C26_OneInvocationPerPath ==
  \A k \in InProgress :
    /\ running[k].filePath \in currentlyProcessing
    /\ \A j \in InProgress : running[j].filePath = running[k].filePath => j = k

\* ---------------------------------------------------------------- properties of the watcher queue
\* C27: while the pipeline is stopped, no file the watcher queued is being
\* processed: a queue filled before stop() is not worked off after it
C27_NothingBeginsAfterStop ==
  ~isRunning => task.op # "processQueue"

\* ---------------------------------------------------------------- properties of the page mappings
\* C28: once a processFile call that is not a dry run has uploaded its page and
\* saved the mappings, the mapping of its file holds the id of the page that
\* createPage or updatePage returned, the id the call reports in its result
C28_MappingHoldsReturnedId ==
  \A k \in 1..Len(running) :
    (/\ task # NoTask
     /\ running[k].stage = "settled"
     /\ running[k].result.success
     /\ "save" \in running[k].did) =>
      GetMapping(mappings, running[k].filePath).confluencePageId
        = running[k].result.confluencePageId

====
